---- MODULE Spec2Model ----
(***************************************************************************)
(* DF1 link-layer daemon (df1d): clients, arbitrator, transmitter and      *)
(* receiver of one serial connection, modelled handler by handler.         *)
(*                                                                         *)
(* The daemon is single threaded: every action below is one dispatch of    *)
(* the main loop (one client socket read, one socket write, one TTY read,  *)
(* one TTY write, one tick) and runs the whole handler, nested calls       *)
(* included.  Handlers are operators from a connection state record to a   *)
(* connection state record; an action commits the record they return.      *)
(***************************************************************************)
EXTENDS Integers, Sequences, FiniteSets, TLC

(***************************************************************************)
(* Link symbols and client socket message codes.                           *)
(***************************************************************************)
SYM_STX == 2
SYM_ETX == 3
SYM_ENQ == 5
SYM_ACK == 6
SYM_NAK == 21
SYM_DLE == 16
MSG_SOH == 1
MSG_ACK == 6
MSG_NAK == 21

(***************************************************************************)
(* Client states, in the order of CLIENT_STATE_T (the code compares them   *)
(* with >=).                                                               *)
(***************************************************************************)
CLIENT_CONNECTED == 0
CLIENT_REG_LEN == 1
CLIENT_REG_NAME == 2
CLIENT_IDLE == 3
CLIENT_MSG_LEN == 4
CLIENT_MSG == 5
CLIENT_MSG_READY == 6
CLIENT_MSG_PEND == 7

NULL == 0

(***************************************************************************)
(* Bounds.  The buffer capacities stand for the 512 byte buffers of the    *)
(* daemon, scaled down so that a full buffer is reachable; RxTticks stands *)
(* for the 501 tick receiver timeout and PCCC_NAME_LEN for the 16 bytes of *)
(* a client name.                                                          *)
(***************************************************************************)
MaxClients == 2
ClientBufSize == 8
TtyBufSize == 7
TxBufSize == 9
RxBufSize == 7
RxTticks == 1
MaxCnt == 3
MaxMsgLen == 1
MaxAccepts == 3
MaxMsgs == 2
MaxPeer == 3
MaxGone == 1
MaxMsgsRx == 1
MaxPeerRx == 2
MaxPeerReg == 1
MaxClientsRR == 3
MaxMsgsRR == 5
MaxPeerRR == 4
PCCC_NAME_LEN == 2
MaxNameRcvd == 5

VARIABLES clients, tx, rx, conn, dcnts, hist, cfg, lib, bf

vars == <<clients, tx, rx, conn, dcnts, hist, cfg, lib, bf>>

(***************************************************************************)
(* The connection state the handlers work on.                              *)
(***************************************************************************)
St == [clients |-> clients, tx |-> tx, rx |-> rx, conn |-> conn,
       dcnts |-> dcnts, h |-> hist]

Commit(t) ==
    /\ clients' = t.clients
    /\ tx' = t.tx
    /\ rx' = t.rx
    /\ conn' = t.conn
    /\ dcnts' = t.dcnts
    /\ hist' = t.h
    /\ cfg' = cfg
    /\ lib' = lib
    /\ bf' = bf

(***************************************************************************)
(* Byte buffer: data[1..len] and a read cursor index, 0 <= index <= len.   *)
(***************************************************************************)
buf_empty == [data |-> <<>>, index |-> 0]

buf_len(b) == Len(b.data)

\* buf_append_byte: fails, appending nothing, when the buffer is at max.
buf_append_byte(dst, src, max) ==
    IF Len(dst.data) = max
    THEN [b |-> dst, err |-> TRUE]
    ELSE [b |-> [dst EXCEPT !.data = Append(@, src)], err |-> FALSE]

\* buf_append_word: two bytes, both or none.
buf_append_word(dst, lo, hi, max) ==
    IF Len(dst.data) + 2 > max
    THEN [b |-> dst, err |-> TRUE]
    ELSE [b |-> [dst EXCEPT !.data = @ \o <<lo, hi>>], err |-> FALSE]

\* buf_append_buf: the whole of src (from its first byte, whatever its
\* read cursor), or nothing.
buf_append_buf(dst, src, max) ==
    IF Len(dst.data) + Len(src.data) > max
    THEN [b |-> dst, err |-> TRUE]
    ELSE [b |-> [dst EXCEPT !.data = @ \o src.data], err |-> FALSE]

\* buf_write_ready
buf_write_ready(b) == Len(b.data) # 0 /\ b.index # Len(b.data)

\* buf_write with a write() that accepted n bytes.
buf_write(src, n) ==
    IF src.index + n = Len(src.data)
    THEN buf_empty
    ELSE [src EXCEPT !.index = @ + n]

(***************************************************************************)
(* The BUF structure field by field: max bytes of memory at data, len      *)
(* bytes of them in use, a read cursor index.  len and index are size_t,   *)
(* of SIZE_BITS bits here.  data[k] of the code is data[k + 1] here.  oob  *)
(* records an access outside data[0 .. max - 1], rderr a read() that       *)
(* failed.                                                                 *)
(***************************************************************************)
SIZE_BITS == 6
SizeMod == 2 ^ SIZE_BITS
BufMax == 4
BufByte == {0, 1}

BUF_empty(buf) == [buf EXCEPT !.len = 0, !.index = 0]

\* buf_new: the memory is what malloc left there.
BUF_new(bytes, junk) ==
    [data |-> junk, max |-> bytes, len |-> 0, index |-> 0,
     oob |-> FALSE, rderr |-> FALSE, crashed |-> FALSE]

\* n bytes at data + off, as far as they lie inside the buffer's memory.
BUF_store(buf, off, bytes) ==
    [buf EXCEPT !.data = [k \in 1..buf.max |->
                             IF k > off /\ k <= off + Len(bytes)
                             THEN bytes[k - off] ELSE @[k]],
                !.oob = @ \/ (Len(bytes) > 0 /\ off + Len(bytes) > buf.max)]

BUF_append_byte(dst, src) ==
    IF dst.len = dst.max THEN [b |-> dst, ret |-> -1]
    ELSE [b |-> [BUF_store(dst, dst.len, <<src>>)
                     EXCEPT !.len = (@ + 1) % SizeMod],
          ret |-> 0]

BUF_append_buf(dst, src) ==
    LET new_len == (dst.len + src.len) % SizeMod
    IN IF new_len > dst.max THEN [b |-> dst, ret |-> -1]
       ELSE [b |-> [BUF_store(dst, dst.len, SubSeq(src.data, 1, src.len))
                        EXCEPT !.len = new_len],
             ret |-> 0]

BUF_get_byte(src) ==
    IF src.len = src.index THEN [b |-> src, ret |-> -1]
    ELSE [b |-> [src EXCEPT !.index = (@ + 1) % SizeMod,
                            !.oob = @ \/ src.index >= src.max],
          ret |-> 0]

\* buf_read with a read() that returned len (-1 with an errno other than
\* EINTR, 0 at the end of the file) and put bytes at data.
BUF_read(dst, len, bytes) ==
    [BUF_store(dst, 0, bytes) EXCEPT !.index = 0, !.len = len % SizeMod,
                                     !.rderr = @ \/ len < 0]

\* What buf_write asks write() to take.
BUF_pending(src) == (src.len - src.index) % SizeMod

\* buf_write with a write() that returned bytes (-1 with an errno other
\* than EINTR).
BUF_write(src, bytes) ==
    IF bytes < 0 THEN src
    ELSE LET moved == [src EXCEPT !.index = (@ + bytes) % SizeMod,
                                  !.oob = @ \/ src.index + bytes > src.max]
         IN IF moved.index = moved.len THEN BUF_empty(moved) ELSE moved

\* Appends single bytes one by one; a byte that does not fit is dropped.
RECURSIVE AppendBytes(_, _, _)
AppendBytes(dst, bytes, max) ==
    IF bytes = <<>> THEN dst
    ELSE AppendBytes(buf_append_byte(dst, Head(bytes), max).b, Tail(bytes), max)

(***************************************************************************)
(* The PCCC client library: message slots and connection state.            *)
(***************************************************************************)
MSG_UNUSED == 0
MSG_PEND == 1
MSG_TX == 2
MSG_ACK_RCVD == 4
MSG_REPLY_RCVD == 8
MSG_CMD_DONE == 14
BUF_SIZE == 300
TNS_MOD == 65536

\* Message slots of a connection, commands the application issues, messages
\* the peer sends, seconds of the reply timeout, seconds the clock runs.
NumMsgs == 3
MaxCmds == 3
MaxInbound == 2
MaxCmdsErr == 2
LibTimeout == 1
MaxNow == 3

\* pccc_new followed by pccc_connect.  msg_init takes the slots from
\* malloc and sets only state, expires and buf: is_cmd and notify of a slot
\* never used hold whatever the memory held (junk[i]).  The transaction
\* number starts at a random value other than zero.
LibNew(tns0, junk, lim) ==
    [connected |-> lim.on, lim |-> lim, tns |-> tns0, sock_out |-> buf_empty,
     msg_in |-> <<>>, msg_in_len |-> 0, read_mode |-> "IDLE", cur_msg |-> 1,
     msgs |-> [i \in 1..NumMsgs |->
                 [state |-> MSG_UNUSED, is_cmd |-> junk[i].is_cmd,
                  notify |-> junk[i].notify, tns |-> 0, expires |-> 0,
                  result |-> "none", buf |-> buf_empty, id |-> 0]],
     now |-> 1, wire |-> <<>>, dmn |-> "idle", sent |-> {},
     pc |-> "user", cmd |-> 1,
     h |-> [calls |-> [k \in 1..MaxCmds |-> <<>>], ncmds |-> 0,
            accepted |-> {}, nin |-> 0, ret |-> "SUCCESS",
            crashed |-> FALSE]]

NoJunk == [i \in 1..NumMsgs |-> [is_cmd |-> FALSE, notify |-> "null"]]

\* What the application and the peer do in a scenario: whether the
\* connection is open, and how many commands and inbound messages there are.
LibOff == [on |-> FALSE, cmds |-> 0, inbound |-> 0]

LibCfg == [on |-> TRUE, cmds |-> MaxCmds, inbound |-> MaxInbound]

LibErrCfg == [on |-> TRUE, cmds |-> MaxCmdsErr, inbound |-> MaxInbound]

(***************************************************************************)
(* Checksums.                                                              *)
(***************************************************************************)
\* Bitwise exclusive or; x and y have the operands computed once.
RECURSIVE Xor(_, _)
Xor(a, b) ==
    LET x == a
        y == b
    IN IF x = 0 THEN y
       ELSE IF y = 0 THEN x
       ELSE (((x % 2) + (y % 2)) % 2) + (2 * Xor(x \div 2, y \div 2))

\* The guard c >= 0 always holds; it has the shifted value computed once,
\* before the next round uses it.
RECURSIVE CrcShift(_, _)
CrcShift(crc, n) ==
    IF n = 0 THEN crc
    ELSE LET c == IF crc % 2 = 1 THEN Xor(crc \div 2, 40961) ELSE crc \div 2
         IN IF c >= 0 THEN CrcShift(c, n - 1) ELSE c

CRC_ADD(crc, val) == CrcShift(Xor(crc, val), 8)

\* The checksum accumulator of either mode: CRC-16 or 8 bit sum.
cs_add_to(acc, x) ==
    IF cfg.use_crc THEN CRC_ADD(acc, x) ELSE (acc + x) % 256

\* The guard a >= 0 always holds, as in CrcShift.
RECURSIVE cs_of(_, _)
cs_of(acc, bytes) ==
    IF bytes = <<>> THEN acc
    ELSE LET a == cs_add_to(acc, Head(bytes))
         IN IF a >= 0 THEN cs_of(a, Tail(bytes)) ELSE a

\* A transmitter that sends the application bytes as they are.
Stuff_plain(bytes) == bytes

\* DLE stuffing of tx_msg: a DLE is sent as DLE DLE.
RECURSIVE Stuff(_)
Stuff(bytes) ==
    IF bytes = <<>> THEN <<>>
    ELSE (IF Head(bytes) = SYM_DLE THEN <<SYM_DLE, SYM_DLE>>
          ELSE <<Head(bytes)>>) \o Stuff(Tail(bytes))

(***************************************************************************)
(* Client list.  A client pointer is the client's id; NULL is 0.           *)
(***************************************************************************)
Ids(s) == {s.clients[i].id : i \in 1..Len(s.clients)}

Idx(s, id) == CHOOSE i \in 1..Len(s.clients) : s.clients[i].id = id

Cl(s, id) == s.clients[Idx(s, id)]

\* One more on a diagnostic counter.
Bump(n) == n + 1

\* Diagnostic counters are written and never read by the daemon; a
\* specification follows the ones named in cfg.diag.
Inc(s, f) == IF f \in cfg.diag THEN [s EXCEPT !.dcnts[f] = Bump(@)] ELSE s

\* Record of what the running handler did (history, not daemon state):
\* event e about client c and byte b, with the transmitter as it was then
\* (state, nak_cnt, enq_cnt, tx.client) and the history of the message in it.
Ev(s, e, c, b) ==
    [s EXCEPT !.h.ev = Append(@, [e |-> e, c |-> c, b |-> b,
                                  st |-> s.tx.state,
                                  naks |-> s.tx.nak_cnt,
                                  tmo |-> s.tx.enq_cnt,
                                  txc |-> s.tx.client,
                                  own |-> s.h.owner,
                                  m |-> s.h.m])]

\* History of the message in the transmitter: ENQs and frames put into the
\* TTY output for it, and whether the peer has sent nothing since tx_msg.
NoMsg == [enqs |-> 0, frames |-> 0, quiet |-> TRUE]

(***************************************************************************)
(* Transmitter and arbitrator (tx.c, client.c).                            *)
(***************************************************************************)
\* A transmitter that always claims to be free.
tx_busy_never(t) == FALSE

tx_busy(t) == t.state # "TX_IDLE"

\* A flush that leaves the transmitter state as it was.
flush_msg_busy(s) ==
    [s EXCEPT !.tx.nak_cnt = 0, !.tx.enq_cnt = 0, !.tx.msg = buf_empty]

\* A flush that forgets the retry counters.
flush_msg_keep(s) == [s EXCEPT !.tx.msg = buf_empty, !.tx.state = "TX_IDLE"]

flush_msg(s) ==
    [s EXCEPT !.tx.nak_cnt = 0, !.tx.enq_cnt = 0, !.tx.msg = buf_empty,
              !.tx.state = "TX_IDLE"]

\* The frame tx_msg assembles from application bytes.
Frame(bytes) ==
    <<SYM_DLE, SYM_STX>> \o Stuff(bytes) \o <<SYM_DLE, SYM_ETX>>

\* Appends the checksum of the application bytes to the frame in msg.
AppendCs(msg, bytes) ==
    IF cfg.use_crc
    THEN LET crc == CRC_ADD(cs_of(0, bytes), SYM_ETX)
         IN buf_append_word(msg, crc % 256, crc \div 256, TxBufSize).b
    ELSE buf_append_byte(msg, (256 - cs_of(0, bytes)) % 256, TxBufSize).b

RECURSIVE find_next_tx(_, _)

\* Common part of client_msg_tx_ok and client_msg_tx_fail.
Notify(s, byte) ==
    IF s.tx.client # NULL
    THEN LET id == s.tx.client
             c == Cl(s, id)
             r == buf_append_byte(c.sock_out, byte, ClientBufSize)
             s1 == [Ev(s, IF r.err THEN "lost" ELSE "notify", id, byte)
                       EXCEPT !.clients[Idx(s, id)] =
                                  [c EXCEPT !.sock_out = r.b,
                                            !.state = CLIENT_IDLE],
                              !.h.owner = NULL,
                              !.h.m = NoMsg]
         IN s1
    ELSE [Ev(s, "defunct", NULL, byte) EXCEPT !.h.owner = NULL,
                                               !.h.m = NoMsg]

\* A completion that does not look for the next message.
client_msg_tx_ok_only(s) == Notify(s, MSG_ACK)

client_msg_tx_ok(s) == find_next_tx(Notify(s, MSG_ACK), NULL)

client_msg_tx_fail(s) == find_next_tx(Notify(s, MSG_NAK), NULL)

send_msg(s) ==
    LET s1 == [s EXCEPT !.tx.state = "TX_PEND_MSG_TX"]
        r == buf_append_buf(s1.conn.tty_out, s1.tx.msg, TtyBufSize)
    IN IF r.err
       THEN client_msg_tx_fail(flush_msg(Ev(s1, "ttyfull", NULL, 0)))
       ELSE Ev([s1 EXCEPT !.conn.tty_out = r.b, !.h.m.frames = @ + 1],
               "frame", NULL, 0)

send_enq(s) ==
    LET s1 == [s EXCEPT !.tx.state = "TX_PEND_MSG_TX"]
        r1 == buf_append_byte(s1.conn.tty_out, SYM_DLE, TtyBufSize)
        r2 == buf_append_byte(r1.b, SYM_ENQ, TtyBufSize)
    IN IF r1.err
       THEN client_msg_tx_fail(flush_msg(Ev(s1, "ttyfull", NULL, 0)))
       ELSE IF r2.err
       THEN client_msg_tx_fail(flush_msg(
                Ev([s1 EXCEPT !.conn.tty_out = r1.b], "ttyfull", NULL, 0)))
       ELSE Ev([s1 EXCEPT !.conn.tty_out = r2.b, !.h.m.enqs = @ + 1],
               "enq", NULL, 0)

\* History, kept when cfg.order is set: passed[k][j] is the number of
\* messages of client j handed to the transmitter since client k has been
\* waiting in MSG_READY (counted up to 2).
Passed(s, id) ==
    IF cfg.order
    THEN [k \in 1..MaxClientsRR |->
            IF k = id THEN [j \in 1..MaxClientsRR |-> 0]
            ELSE IF \E i \in 1..Len(s.clients) :
                       /\ s.clients[i].id = k
                       /\ s.clients[i].state = CLIENT_MSG_READY
            THEN [s.h.passed[k] EXCEPT ![id] = IF @ < 2 THEN @ + 1 ELSE @]
            ELSE s.h.passed[k]]
    ELSE s.h.passed

tx_msg(s, id) ==
    LET c == Cl(s, id)
        bytes == SubSeq(c.df1_tx.data, c.df1_tx.index + 1, Len(c.df1_tx.data))
        m1 == AppendBytes(s.tx.msg, Frame(bytes), TxBufSize)
        m2 == AppendCs(m1, bytes)
        s1 == [s EXCEPT !.clients[Idx(s, id)].df1_tx.index = Len(c.df1_tx.data),
                        !.tx.msg = m2,
                        !.tx.client = id,
                        !.h.m = NoMsg,
                        !.h.owner = id,
                        !.h.seq = @ + 1,
                        !.h.passed = Passed(s, id),
                        !.h.handoffBusy = @ \/ s.tx.state # "TX_IDLE"
                                            \/ s.tx.msg.data # <<>>]
    IN Inc(send_msg(Ev(s1, "handoff", id, 0)), "tx_attempts")

\* Position in the client list the search starts at.
\* A search that always starts at the head of the client list.
StartIdx_head(s, start_client) ==
    IF start_client # NULL THEN Idx(s, start_client) ELSE 1

StartIdx(s, start_client) ==
    IF start_client # NULL THEN Idx(s, start_client)
    ELSE IF s.tx.client = NULL THEN 1
    ELSE IF Idx(s, s.tx.client) = Len(s.clients) THEN 1
    ELSE Idx(s, s.tx.client) + 1

\* The first client with a message ready, going round the list from the
\* start position; NULL when there is none.
NextReady(s, start_client) ==
    LET n == Len(s.clients)
        st == StartIdx(s, start_client)
        at(k) == ((st - 1 + k) % n) + 1
        ready == {k \in 0..(n - 1) :
                     s.clients[at(k)].state = CLIENT_MSG_READY}
    IN IF ready = {} THEN NULL
       ELSE s.clients[at(CHOOSE x \in ready : \A y \in ready : x <= y)].id

\* What find_next_tx does to the client once tx_msg has returned.
MsgPend(s, id) ==
    [s EXCEPT !.clients[Idx(s, id)].df1_tx = buf_empty,
              !.clients[Idx(s, id)].state = CLIENT_MSG_PEND]

find_next_tx(s, start_client) ==
    IF tx_busy(s.tx) THEN s
    ELSE IF s.clients = <<>> THEN s
    ELSE IF NextReady(s, start_client) = NULL THEN s
    ELSE MsgPend(tx_msg(s, NextReady(s, start_client)),
                 NextReady(s, start_client))

\* A drain of the TTY output that the transmitter does not notice.
tx_data_sent_never(s) == s

tx_data_sent(s) ==
    IF s.tx.state = "TX_PEND_MSG_TX"
    THEN [s EXCEPT !.tx.state = "TX_PEND_RESP", !.tx.eticks = 0]
    ELSE s

(***************************************************************************)
(* Receiver responses (rx.c).                                              *)
(***************************************************************************)
\* A receiver that forgets nothing.
rx_set_nak_keep(s) == s

rx_set_nak(s) == [s EXCEPT !.rx.last_was_ack = FALSE]

\* History: whether the last response was an ACK that has not been unsettled
\* since by a receive timeout, a spurious byte or an unexpected ACK or NAK.
Said(s, sym) == [s EXCEPT !.h.lastAck = (sym = SYM_ACK)]

Unsettled(s) == rx_set_nak([s EXCEPT !.h.lastAck = FALSE])

rx_active(r) == ~(r.state = "RX_IDLE" \/ r.state = "RX_PEND")

\* History: the response to a delivered frame did not get into the TTY
\* output.
Lost(s) == IF s.h.owed = "yes" THEN [s EXCEPT !.h.owed = "lost"] ELSE s

\* History, kept when duplicate detection is enabled: how the frame whose
\* fingerprint msg_dup stored last as that of a new message was answered
\* ("none" before the first such frame, "pend" while its client decides).
Answered(s, sym) ==
    IF cfg.dup_detect /\ s.rx.state = "RX_PEND"
    THEN [s EXCEPT !.h.fp = IF sym = SYM_ACK THEN "ack" ELSE "nak"]
    ELSE s

\* DLE sym into the TTY output: the second byte is tried only when the
\* first one went in.
PutBytes(s, sym) ==
    LET r1 == buf_append_byte(s.conn.tty_out, SYM_DLE, TtyBufSize)
        r2 == buf_append_byte(r1.b, sym, TtyBufSize)
    IN IF r1.err THEN Lost(Ev(s, "resplost", NULL, sym))
       ELSE IF r2.err
       THEN Lost(Ev([s EXCEPT !.conn.tty_out = r1.b], "resplost", NULL, sym))
       ELSE Ev([s EXCEPT !.conn.tty_out = r2.b, !.h.owed = "no"],
               "resp", NULL, sym)

PutResp(s, sym) == PutBytes(Said(Answered(s, sym), sym), sym)

rx_ack(s) ==
    Inc([PutResp(s, SYM_ACK) EXCEPT !.rx.last_was_ack = TRUE,
                                    !.rx.state = "RX_IDLE",
                                    !.rx.client = NULL], "acks_out")

rx_nak(s) ==
    Inc([rx_set_nak(PutResp(s, SYM_NAK)) EXCEPT !.rx.state = "RX_IDLE",
                                                !.rx.client = NULL],
        "naks_out")

\* An ENQ handler without the case of a waiting client.
rx_enq_plain(s) == IF s.rx.last_was_ack THEN rx_ack(s) ELSE rx_nak(s)

rx_enq(s) ==
    IF s.rx.state = "RX_PEND"
    THEN rx_ack(Ev([s EXCEPT !.clients[Idx(s, s.rx.client)].rx_timeouts =
                                 IF "rx_timeouts" \in cfg.diag THEN Bump(@)
                                 ELSE @],
                    "rxtimeout", s.rx.client, 0))
    ELSE IF s.rx.last_was_ack THEN rx_ack(s)
    ELSE rx_nak(s)

\* A receive timeout that answers the peer at once.
rx_tick_nak(s) ==
    IF s.rx.state = "RX_IDLE" \/ s.rx.state = "RX_PEND" THEN s
    ELSE IF s.rx.eticks + 1 > RxTticks
    THEN rx_nak([s EXCEPT !.rx.eticks = @ + 1])
    ELSE [s EXCEPT !.rx.eticks = @ + 1]

rx_tick(s) ==
    IF s.rx.state = "RX_IDLE" \/ s.rx.state = "RX_PEND" THEN s
    ELSE IF s.rx.eticks + 1 > RxTticks
    THEN Unsettled([s EXCEPT !.rx.eticks = @ + 1, !.rx.state = "RX_IDLE"])
    ELSE [s EXCEPT !.rx.eticks = @ + 1]

(***************************************************************************)
(* Transmitter events (tx.c).                                              *)
(***************************************************************************)
\* A timeout that fails the message when enq_cnt reaches max_enq.
tx_tick_ge(s) ==
    IF ~s.conn.embed_rsp /\ rx_active(s.rx) THEN s
    ELSE IF s.tx.state # "TX_PEND_RESP" THEN s
    ELSE IF s.tx.eticks + 1 > cfg.tticks
    THEN LET s1 == Inc([Ev(s, "tmo", NULL, 0)
                            EXCEPT !.tx.eticks = @ + 1,
                                   !.tx.enq_cnt = @ + 1], "resp_timeouts")
         IN IF s1.tx.enq_cnt >= cfg.max_enq
            THEN client_msg_tx_fail(
                     Inc(flush_msg(Ev(s1, "enqfail", NULL, 0)), "tx_fail"))
            ELSE send_enq(s1)
    ELSE [s EXCEPT !.tx.eticks = @ + 1]

\* A response timer that runs while a frame comes in.
tx_tick_nopause(s) ==
    IF s.tx.state # "TX_PEND_RESP" THEN s
    ELSE IF s.tx.eticks + 1 > cfg.tticks
    THEN LET s1 == Inc([Ev(s, "tmo", NULL, 0)
                            EXCEPT !.tx.eticks = @ + 1,
                                   !.tx.enq_cnt = @ + 1], "resp_timeouts")
         IN IF s1.tx.enq_cnt > cfg.max_enq
            THEN client_msg_tx_fail(
                     Inc(flush_msg(Ev(s1, "enqfail", NULL, 0)), "tx_fail"))
            ELSE send_enq(s1)
    ELSE [s EXCEPT !.tx.eticks = @ + 1]

tx_tick(s) ==
    IF ~s.conn.embed_rsp /\ rx_active(s.rx) THEN s
    ELSE IF s.tx.state # "TX_PEND_RESP" THEN s
    ELSE IF s.tx.eticks + 1 > cfg.tticks
    THEN LET s1 == Inc([Ev(s, "tmo", NULL, 0)
                            EXCEPT !.tx.eticks = @ + 1,
                                   !.tx.enq_cnt = @ + 1], "resp_timeouts")
         IN IF s1.tx.enq_cnt > cfg.max_enq
            THEN client_msg_tx_fail(
                     Inc(flush_msg(Ev(s1, "enqfail", NULL, 0)), "tx_fail"))
            ELSE send_enq(s1)
    ELSE [s EXCEPT !.tx.eticks = @ + 1]

\* A DLE ACK that completes the transmission in any state.
tx_ack_any(s) ==
    client_msg_tx_ok(Inc(flush_msg(Ev(s, "ack", NULL, 0)), "tx_success"))

tx_ack(s) ==
    IF s.tx.state = "TX_PEND_RESP"
    THEN client_msg_tx_ok(Inc(flush_msg(Ev(s, "ack", NULL, 0)), "tx_success"))
    ELSE Inc(Inc(Unsettled(Ev(s, "ack", NULL, 0)), "bytes_ignored"),
             "bytes_ignored")

\* A NAK limit that is off by one.
tx_nak_strict(s) ==
    IF s.tx.state = "TX_PEND_RESP"
    THEN LET s1 == [Ev(s, "nak", NULL, 0) EXCEPT !.tx.nak_cnt = @ + 1]
         IN IF s1.tx.nak_cnt > cfg.max_nak
            THEN client_msg_tx_fail(
                     Inc(flush_msg(Ev(s1, "nakfail", NULL, 0)), "tx_fail"))
            ELSE send_msg(s1)
    ELSE Inc(Inc(Unsettled(Ev(s, "nak", NULL, 0)), "bytes_ignored"),
             "bytes_ignored")

tx_nak(s) ==
    IF s.tx.state = "TX_PEND_RESP"
    THEN LET s1 == [Ev(s, "nak", NULL, 0) EXCEPT !.tx.nak_cnt = @ + 1]
         IN IF s1.tx.nak_cnt >= cfg.max_nak
            THEN client_msg_tx_fail(
                     Inc(flush_msg(Ev(s1, "nakfail", NULL, 0)), "tx_fail"))
            ELSE send_msg(s1)
    ELSE Inc(Inc(Unsettled(Ev(s, "nak", NULL, 0)), "bytes_ignored"),
             "bytes_ignored")

embed_rsp(s, rsp) ==
    LET s1 == [s EXCEPT !.conn.embed_rsp = TRUE]
    IN IF rsp = SYM_ACK THEN tx_ack(s1) ELSE tx_nak(s1)

(***************************************************************************)
(* Frame reception and delivery (rx.c, client.c).                          *)
(***************************************************************************)
\* A search that finds no registered client.
find_addr_none(s, addr) == NULL

find_addr(s, addr) ==
    LET hits == {i \in 1..Len(s.clients) :
                    s.clients[i].state >= CLIENT_IDLE
                    /\ s.clients[i].addr = addr}
    IN IF hits = {} THEN NULL
       ELSE s.clients[CHOOSE i \in hits : \A j \in hits : i <= j].id

\* The three appends of client_msg_rx: SOH, the length in one byte, and
\* the whole of the receiver's application buffer.
Deliver(sock_out, app, max) ==
    LET b1 == buf_append_byte(sock_out, MSG_SOH, max).b
        b2 == buf_append_byte(b1, buf_len(app) % 256, max).b
    IN buf_append_buf(b2, app, max)

client_msg_rx(s) ==
    LET dst == s.rx.app.data[s.rx.app.index + 1]
        s0 == [s EXCEPT !.rx.app.index = @ + 1]
        id == find_addr(s0, dst)
    IN IF id = NULL
       THEN rx_ack(Inc(s0, "unknown_dst"))
       ELSE LET c == Cl(s0, id)
                full == buf_len(c.sock_out) + buf_len(s0.rx.app) + 2
                           > ClientBufSize
                s1 == IF full THEN Ev(rx_nak(s0), "sinkfull", id, 0) ELSE s0
                b3 == Deliver(c.sock_out, s0.rx.app, ClientBufSize)
                s2 == [s1 EXCEPT !.clients[Idx(s1, id)].sock_out = b3.b,
                                 !.rx.client = id]
            IN IF b3.err THEN s2
               ELSE [Ev(s2, "deliver", id, 0)
                        EXCEPT !.h.owed = "yes",
                               !.h.unanswered = @ \/ s.h.owed # "no"]

cs_ok(s) ==
    IF cfg.use_crc THEN s.rx.acc_cs = s.rx.msg_cs
    ELSE (256 - s.rx.acc_cs) % 256 = s.rx.msg_cs

\* A comparison that never finds a duplicate.
IsDup_never(s) == FALSE

\* Is the completed frame a duplicate (rx.app.data[1], [2], [4], [5] of
\* the code are bytes 2, 3, 5 and 6 here).
IsDup(s) ==
    /\ cfg.dup_detect
    /\ <<s.rx.app.data[2], s.rx.app.data[3], s.rx.app.data[5],
         s.rx.app.data[6]>> = s.rx.dup

\* msg_dup: the state after the call; the fingerprint is stored whenever
\* detection is enabled.
msg_dup(s) ==
    IF ~cfg.dup_detect THEN s
    ELSE LET s1 == [s EXCEPT !.rx.dup = <<s.rx.app.data[2], s.rx.app.data[3],
                                          s.rx.app.data[5], s.rx.app.data[6]>>]
         IN IF IsDup(s) THEN Inc(s1, "dups") ELSE s1

\* History: the frame is taken for a duplicate; how the frame it is a
\* duplicate of was answered.
DupSeen(s) == Ev([s EXCEPT !.h.dupOf = s.h.fp], "dup", NULL, 0)

\* History: the frame is taken for a new message.
Fresh(s) ==
    Ev(IF cfg.dup_detect THEN [s EXCEPT !.h.fp = "pend"] ELSE s,
       "new", NULL, 0)

\* History: a frame is completed while a delivered one awaits its client.
Accepting(s) == [s EXCEPT !.h.pendAccept = @ \/ s.h.owed = "yes"]

\* An acceptance that looks at the checksum before the length.
accept_msg_cs_first(s) ==
    IF ~cs_ok(s)
    THEN rx_nak(Inc(Ev(s, "badcs", NULL, 0), "bad_cs"))
    ELSE IF buf_len(s.rx.app) < 6
    THEN rx_nak(Inc(Ev(s, "runt", NULL, 0), "runts"))
    ELSE IF IsDup(s)
    THEN rx_ack(DupSeen(msg_dup(s)))
    ELSE client_msg_rx(Inc([Fresh(msg_dup(s))
                               EXCEPT !.rx.state = "RX_PEND"], "msg_rx"))

accept_msg(s) ==
    IF buf_len(s.rx.app) < 6
    THEN rx_nak(Inc(Ev(s, "runt", NULL, 0), "runts"))
    ELSE IF cs_ok(s)
    THEN IF IsDup(s)
         THEN rx_ack(DupSeen(msg_dup(s)))
         ELSE client_msg_rx(Inc([Fresh(msg_dup(s))
                                    EXCEPT !.rx.state = "RX_PEND"], "msg_rx"))
    ELSE rx_nak(Inc(Ev(s, "badcs", NULL, 0), "bad_cs"))

cs_add(s, x) == [s EXCEPT !.rx.acc_cs = cs_add_to(@, x)]

add_to_app(s, byte) ==
    LET store ==
            LET s1 == [s EXCEPT !.rx.prev_dle = FALSE]
                r == buf_append_byte(s1.rx.app, byte, RxBufSize)
                s2 == IF s1.rx.overflow THEN s1
                      ELSE IF r.err
                      THEN Inc([s1 EXCEPT !.rx.overflow = TRUE], "rx_overflow")
                      ELSE [s1 EXCEPT !.rx.app = r.b]
            IN cs_add(s2, byte)
    IN IF byte = SYM_ETX /\ s.rx.prev_dle
       THEN [(IF cfg.use_crc THEN cs_add(s, SYM_ETX) ELSE s)
                EXCEPT !.rx.state = "RX_CS1"]
       ELSE IF byte = SYM_DLE /\ ~s.rx.prev_dle
       THEN [s EXCEPT !.rx.prev_dle = TRUE]
       ELSE IF byte \in {SYM_ACK, SYM_NAK} /\ s.rx.prev_dle
       THEN embed_rsp([s EXCEPT !.rx.prev_dle = FALSE], byte)
       ELSE IF byte \notin {SYM_ETX, SYM_DLE, SYM_ACK, SYM_NAK}
               /\ s.rx.prev_dle
       THEN rx_set_nak(Ev(s, "baddle", NULL, byte))
       ELSE store

\* The byte loop of rx_msg: the state reached and the bytes left in tty_in
\* when it returns.
RECURSIVE RxLoop(_, _)
RxLoop(s, bytes) ==
    IF bytes = <<>> THEN [s |-> s, rest |-> <<>>]
    ELSE LET byte == Head(bytes)
             rest == Tail(bytes)
         IN CASE s.rx.state = "RX_APP" -> RxLoop(add_to_app(s, byte), rest)
              [] s.rx.state = "RX_CS1" ->
                    IF cfg.use_crc
                    THEN RxLoop([s EXCEPT !.rx.msg_cs = byte,
                                          !.rx.state = "RX_CS2"], rest)
                    ELSE [s |-> accept_msg(Accepting(
                                    [s EXCEPT !.rx.msg_cs = byte])),
                          rest |-> rest]
              [] s.rx.state = "RX_CS2" ->
                    [s |-> accept_msg(Accepting(
                               [s EXCEPT !.rx.msg_cs =
                                   (@ + (byte * 256)) % 65536])),
                     rest |-> rest]
              [] OTHER -> RxLoop(s, rest)

\* A receiver that starts a new message in PEND as it does in IDLE.
rx_msg_any(s, bytes) ==
    IF s.rx.state \in {"RX_IDLE", "RX_PEND"}
    THEN RxLoop([s EXCEPT !.rx.app = buf_empty, !.rx.eticks = 0,
                          !.rx.prev_dle = FALSE, !.rx.overflow = FALSE,
                          !.rx.acc_cs = 0, !.rx.state = "RX_APP"], bytes)
    ELSE RxLoop(s, bytes)

rx_msg(s, bytes) ==
    IF s.rx.state = "RX_IDLE"
    THEN RxLoop([s EXCEPT !.rx.app = buf_empty, !.rx.eticks = 0,
                          !.rx.prev_dle = FALSE, !.rx.overflow = FALSE,
                          !.rx.acc_cs = 0, !.rx.state = "RX_APP"], bytes)
    ELSE IF s.rx.state = "RX_PEND"
    THEN RxLoop(Ev(s, "pendrx", s.rx.client, 0), bytes)
    ELSE RxLoop(s, bytes)

(***************************************************************************)
(* conn.c: link symbols in the bytes read from the TTY.                    *)
(***************************************************************************)
RECURSIVE parse_tty_data(_, _)

\* Continues with what rx_msg left of the bytes read.
AfterRxMsg(r) == parse_tty_data(r.s, r.rest)

\* A byte outside a frame that is not part of a link symbol pair.
PlainByte(s, byte) ==
    IF byte = SYM_DLE THEN [s EXCEPT !.conn.read_sym = TRUE]
    ELSE Unsettled(Inc([s EXCEPT !.conn.read_sym = FALSE], "bytes_ignored"))

\* The byte after a DLE outside a frame; read_sym is already cleared in s.
SymByte(s, byte, rest) ==
    CASE byte = SYM_STX -> AfterRxMsg(rx_msg(s, rest))
      [] byte = SYM_ENQ -> parse_tty_data(rx_enq(Inc(s, "enqs_in")), rest)
      [] byte = SYM_ACK -> parse_tty_data(tx_ack(Inc(s, "acks_in")), rest)
      [] byte = SYM_NAK -> parse_tty_data(tx_nak(Inc(s, "naks_in")), rest)
      [] OTHER ->
            parse_tty_data(
                PlainByte(Unsettled(Inc(s, "bytes_ignored")), byte), rest)

parse_tty_data(s, tty_in) ==
    IF tty_in = <<>> THEN s
    ELSE IF rx_active(s.rx) THEN AfterRxMsg(rx_msg(s, tty_in))
    ELSE IF s.conn.read_sym
    THEN SymByte([s EXCEPT !.conn.read_sym = FALSE], Head(tty_in),
                 Tail(tty_in))
    ELSE parse_tty_data(PlainByte(s, Head(tty_in)), Tail(tty_in))

(***************************************************************************)
(* Client socket protocol (client.c).                                      *)
(***************************************************************************)
NewClient(id) ==
    [id |-> id, state |-> CLIENT_CONNECTED, addr |-> 0, name_len |-> 0,
     name_len_rcvd |-> 0, new_msg_len |-> 0, df1_tx |-> buf_empty,
     sock_out |-> buf_empty, rx_timeouts |-> 0]

client_accept(s, id) ==
    [s EXCEPT !.clients = Append(@, NewClient(id)), !.h.accepts = @ + 1]

\* Unlinks the client from the list.
Unlink(s, id) ==
    [s EXCEPT !.clients = SubSeq(@, 1, Idx(s, id) - 1)
                              \o SubSeq(@, Idx(s, id) + 1, Len(@))]

\* The receiver stops waiting for a client that is being closed.
RxRelease(s, id) == IF s.rx.client = id THEN rx_ack(s) ELSE s

\* A close that leaves the transmitter's reference as it is.
close_client_keep(s, id) ==
    Ev(Unlink(RxRelease(s, id), id), "close", id, 0)

\* A close that also takes the client's message out of the transmitter.
close_client_abort(s, id) ==
    Ev(Unlink(RxRelease(IF s.tx.client = id
                        THEN flush_msg([s EXCEPT !.tx.client = NULL,
                                                 !.h.owner = NULL])
                        ELSE s, id), id),
       "close", id, 0)

close_client(s, id) ==
    Ev(Unlink(RxRelease(IF s.tx.client = id
                        THEN [s EXCEPT !.tx.client = NULL, !.h.owner = NULL]
                        ELSE s, id), id),
       "close", id, 0)

reg_client(s, id) ==
    IF find_addr(s, Cl(s, id).addr) # NULL
    THEN [s |-> Ev(s, "regfail", id, 0), err |-> TRUE]
    ELSE [s |-> Ev([s EXCEPT !.clients[Idx(s, id)].state = CLIENT_IDLE],
                   "reg", id, 0),
          err |-> FALSE]

rcv_app(s, id, byte) ==
    LET c == Cl(s, id)
        r == buf_append_byte(c.df1_tx, byte, ClientBufSize)
    IN IF r.err THEN [s |-> s, err |-> TRUE]
       ELSE IF buf_len(r.b) = c.new_msg_len
       THEN [s |-> find_next_tx(
                       Ev([s EXCEPT !.clients[Idx(s, id)].df1_tx = r.b,
                                    !.clients[Idx(s, id)].state =
                                        CLIENT_MSG_READY],
                          "ready", id, 0), id),
             err |-> FALSE]
       ELSE [s |-> [s EXCEPT !.clients[Idx(s, id)].df1_tx = r.b],
             err |-> FALSE]

\* History: the answer to the frame in PEND (state st) is its client's
\* MSG_ACK.
ByClient(t, st) ==
    IF cfg.dup_detect /\ st = "RX_PEND" THEN [t EXCEPT !.h.fp = "accepted"]
    ELSE t

rcv_ack(s, id) ==
    IF s.rx.client = id THEN ByClient(rx_ack(s), s.rx.state) ELSE s

rcv_nak(s, id) == IF s.rx.client = id THEN rx_nak(s) ELSE s

\* A byte is written to name[at] of a client; the array has
\* PCCC_NAME_LEN + 1 elements, and a write past its end is recorded.
NameByte(s, at) == IF at > PCCC_NAME_LEN THEN Ev(s, "nameoob", NULL, at) ELSE s

\* A parser that ignores an SOH sent while a message is outstanding.
SockByte_lenient(s, id, byte) ==
    LET c == Cl(s, id)
        i == Idx(s, id)
        ok(u) == [s |-> u, err |-> FALSE]
        bad == [s |-> s, err |-> TRUE]
        pending ==
            CASE byte = MSG_SOH -> ok(s)
              [] byte = MSG_ACK -> ok(rcv_ack(s, id))
              [] byte = MSG_NAK -> ok(rcv_nak(s, id))
              [] OTHER -> bad
    IN CASE c.state = CLIENT_CONNECTED ->
              ok([s EXCEPT !.clients[i].addr = byte,
                           !.clients[i].state = CLIENT_REG_LEN])
         [] c.state = CLIENT_REG_LEN ->
              ok([s EXCEPT !.clients[i].name_len = byte,
                           !.clients[i].state = CLIENT_REG_NAME])
         [] c.state = CLIENT_REG_NAME ->
              LET s1 == [NameByte(s, c.name_len_rcvd)
                            EXCEPT !.clients[i].name_len_rcvd = (@ + 1) % 256]
              IN IF s1.clients[i].name_len_rcvd = c.name_len
                 THEN reg_client(NameByte(s1, c.name_len), id)
                 ELSE ok(s1)
         [] c.state = CLIENT_IDLE ->
              IF byte = MSG_SOH
              THEN ok([s EXCEPT !.clients[i].state = CLIENT_MSG_LEN,
                                !.h.msgs = @ + 1])
              ELSE pending
         [] c.state \in {CLIENT_MSG_READY, CLIENT_MSG_PEND} -> pending
         [] c.state = CLIENT_MSG_LEN ->
              ok([s EXCEPT !.clients[i].new_msg_len = byte,
                           !.clients[i].state = CLIENT_MSG])
         [] c.state = CLIENT_MSG -> rcv_app(s, id, byte)

\* One byte of parse_sock_data.
SockByte(s, id, byte) ==
    LET c == Cl(s, id)
        i == Idx(s, id)
        ok(u) == [s |-> u, err |-> FALSE]
        bad == [s |-> s, err |-> TRUE]
        pending ==
            CASE byte = MSG_SOH -> bad
              [] byte = MSG_ACK -> ok(rcv_ack(s, id))
              [] byte = MSG_NAK -> ok(rcv_nak(s, id))
              [] OTHER -> bad
    IN CASE c.state = CLIENT_CONNECTED ->
              ok([s EXCEPT !.clients[i].addr = byte,
                           !.clients[i].state = CLIENT_REG_LEN])
         [] c.state = CLIENT_REG_LEN ->
              ok([s EXCEPT !.clients[i].name_len = byte,
                           !.clients[i].state = CLIENT_REG_NAME])
         [] c.state = CLIENT_REG_NAME ->
              LET s1 == [NameByte(s, c.name_len_rcvd)
                            EXCEPT !.clients[i].name_len_rcvd = (@ + 1) % 256]
              IN IF s1.clients[i].name_len_rcvd = c.name_len
                 THEN reg_client(NameByte(s1, c.name_len), id)
                 ELSE ok(s1)
         [] c.state = CLIENT_IDLE ->
              IF byte = MSG_SOH
              THEN ok([s EXCEPT !.clients[i].state = CLIENT_MSG_LEN,
                                !.h.msgs = @ + 1])
              ELSE pending
         [] c.state \in {CLIENT_MSG_READY, CLIENT_MSG_PEND} -> pending
         [] c.state = CLIENT_MSG_LEN ->
              ok([s EXCEPT !.clients[i].new_msg_len = byte,
                           !.clients[i].state = CLIENT_MSG])
         [] c.state = CLIENT_MSG -> rcv_app(s, id, byte)

RECURSIVE parse_sock_data(_, _, _)

\* The byte loop of parse_sock_data stops at the first error.
SockRest(r, id, rest) ==
    IF r.err THEN r ELSE parse_sock_data(r.s, id, rest)

parse_sock_data(s, id, sock_in) ==
    IF sock_in = <<>> THEN [s |-> s, err |-> FALSE]
    ELSE SockRest(SockByte(s, id, Head(sock_in)), id, Tail(sock_in))

\* client_service_fds closes a client whose data failed to parse.
CloseOnErr(r, id) == IF r.err THEN close_client(r.s, id) ELSE r.s

\* client_service_fds for a readable client whose read() returned sock_in.
client_read(s, id, sock_in) ==
    CloseOnErr(parse_sock_data(s, id, sock_in), id)

\* write_client with a write() that accepted n bytes.
write_client(s, id, n) ==
    [s EXCEPT !.clients[Idx(s, id)].sock_out = buf_write(@, n)]

\* tty_write with a write() that accepted n bytes.
tty_write(s, n) ==
    LET s1 == [s EXCEPT !.conn.tty_out = buf_write(@, n)]
    IN IF buf_len(s1.conn.tty_out) = 0 THEN tx_data_sent(s1) ELSE s1

conn_tick(s) == tx_tick(rx_tick(s))

(***************************************************************************)
(* Inputs: what the clients and the peer may send.                         *)
(***************************************************************************)
Addrs == {1, 2}
NameLens == {1}

\* Bytes a client may send next, by the state the daemon has it in.
ClientBytes(c) ==
    CASE c.state = CLIENT_CONNECTED -> Addrs
      [] c.state = CLIENT_REG_LEN -> cfg.namelens
      [] c.state = CLIENT_REG_NAME -> {65}
      [] c.state = CLIENT_MSG_LEN -> 1..MaxMsgLen
      [] c.state = CLIENT_MSG -> cfg.payload
      [] cfg.behaved -> {}
      [] OTHER -> {MSG_SOH, MSG_ACK, MSG_NAK, 65}

\* A frame as the peer sends it: six application bytes for node a.
PeerApp(a) == <<a, 7, 0, 0, 0, 0>>

PeerCs(bytes) ==
    IF cfg.use_crc
    THEN LET crc == CRC_ADD(cs_of(0, bytes), SYM_ETX)
         IN <<crc % 256, crc \div 256>>
    ELSE <<(256 - cs_of(0, bytes)) % 256>>

\* The frame that carries the application bytes app.
FrameOf(app) == Frame(app) \o PeerCs(app)

PeerFrame(a) == FrameOf(PeerApp(a))

\* The same with a checksum that does not match.
FrameBad(app) ==
    Frame(app) \o [i \in 1..Len(PeerCs(app)) |->
                      IF i = 1 THEN (PeerCs(app)[1] + 1) % 256
                      ELSE PeerCs(app)[i]]

\* Application bytes for node 1, one more than the receiver's buffer holds.
LongApp == <<1, 7>> \o [i \in 1..(RxBufSize - 1) |-> 0]

\* A frame for node 1 in which the byte 65 follows a DLE, with the checksum
\* of the other application bytes.
BadDleFrame ==
    <<SYM_DLE, SYM_STX>> \o PeerApp(1) \o <<SYM_DLE, 65, SYM_ETX>>
        \o PeerCs(PeerApp(1))

\* What one read() of the TTY may return, by name.
Chunk(name) ==
    CASE name = "ack" -> <<SYM_DLE, SYM_ACK>>
      [] name = "nak" -> <<SYM_DLE, SYM_NAK>>
      [] name = "enq" -> <<SYM_DLE, SYM_ENQ>>
      [] name = "junk" -> <<65>>
      [] name = "frame" -> PeerFrame(1)
      [] name = "head" -> SubSeq(PeerFrame(1), 1, 4)
      [] name = "tail" -> SubSeq(PeerFrame(1), 5, Len(PeerFrame(1)))
      [] name = "zero" -> FrameOf(<<1, 0, 0, 0, 0, 0>>)
      [] name = "runt" -> FrameOf(<<1, 7, 0>>)
      [] name = "runtbad" -> FrameBad(<<1, 7, 0>>)
      [] name = "long" -> FrameOf(LongApp)
      [] name = "baddle" -> BadDleFrame
      [] name = "dle" -> <<SYM_DLE>>
      [] name = "etx" -> <<SYM_ETX>>

DiagNames ==
    {"tx_attempts", "tx_success", "msg_rx", "acks_in", "naks_in",
     "resp_timeouts", "enqs_out", "tx_fail", "acks_out", "naks_out",
     "enqs_in", "runts", "bad_cs", "unknown_dst", "bytes_ignored", "dups",
     "rx_overflow"}

(***************************************************************************)
(* Initial states.  A connection starts as conn_init, tx_init and rx_init  *)
(* leave a calloc'ed CONN; nclients clients have already registered.       *)
(***************************************************************************)
Registered(id) ==
    [NewClient(id) EXCEPT !.state = CLIENT_IDLE, !.addr = id,
                          !.name_len = 1, !.name_len_rcvd = 1]

ConnInitBuf(c, b) ==
    /\ cfg = c
    /\ bf = b
    /\ clients = [i \in 1..c.nclients |-> Registered(i)]
    /\ tx = [state |-> "TX_IDLE", nak_cnt |-> 0, enq_cnt |-> 0, eticks |-> 0,
             msg |-> buf_empty, client |-> NULL]
    /\ rx = [state |-> "RX_IDLE", app |-> buf_empty, dup |-> <<0, 0, 0, 0>>,
             eticks |-> 0, last_was_ack |-> FALSE, overflow |-> FALSE,
             prev_dle |-> FALSE, client |-> NULL, msg_cs |-> 0, acc_cs |-> 0]
    /\ conn = [read_sym |-> FALSE, embed_rsp |-> FALSE, tty_out |-> buf_empty]
    /\ dcnts = [f \in DiagNames |-> 0]
    /\ hist = [ev |-> <<>>, handoffBusy |-> FALSE, owner |-> NULL,
               owed |-> "no", unanswered |-> FALSE, pendAccept |-> FALSE,
               accepts |-> c.nclients, msgs |-> 0, peer |-> 0, gone |-> 0,
               seq |-> 0,
               m |-> NoMsg, fp |-> "none", dupOf |-> "no",
               lastAck |-> FALSE,
               passed |-> [k \in 1..MaxClientsRR |->
                              [j \in 1..MaxClientsRR |-> 0]]]

\* The connection with a byte buffer that no scenario of it touches.
ConnInit(c) == ConnInitBuf(c, BUF_new(BufMax, [k \in 1..BufMax |-> 0]))

\* The daemon's scenarios: no library connection is under observation.
InitWith(c) == ConnInit(c) /\ lib = LibNew(42, NoJunk, LibOff)

\* The transmitter's scenario: two registered clients submit messages and
\* the peer answers with link symbols.
BaseCfg ==
    [use_crc |-> FALSE, max_nak |-> 2, max_enq |-> 1, tticks |-> 1,
     dup_detect |-> FALSE, order |-> FALSE, behaved |-> FALSE,
     namelens |-> NameLens,
     diag |-> {}, nclients |-> 2,
     chunks |-> {"ack", "nak", "enq"}, payload |-> {SYM_DLE},
     maxPeer |-> MaxPeer, maxMsgs |-> MaxMsgs, maxGone |-> MaxGone]

Init == InitWith(BaseCfg)

\* The receiver's scenario: the peer sends frames for client 1 and
\* acknowledges what the clients send.
RxCfg ==
    [BaseCfg EXCEPT !.chunks = {"frame", "ack"}, !.maxPeer = MaxPeerRx,
                    !.maxMsgs = MaxMsgsRx]

InitRx == InitWith(RxCfg)

\* Registration: the connection starts without clients.
RegCfg ==
    [BaseCfg EXCEPT !.nclients = 0, !.chunks = {"frame"},
                    !.maxPeer = MaxPeerReg, !.maxMsgs = MaxMsgsRx]

InitReg == InitWith(RegCfg)

\* Registration with any name length: none, the longest allowed, longer.
\* The clients only register.
RegLenCfg ==
    [RegCfg EXCEPT !.namelens = {0, PCCC_NAME_LEN, PCCC_NAME_LEN + 1,
                                 PCCC_NAME_LEN + 2},
                   !.maxMsgs = 0]

InitRegLen == InitWith(RegLenCfg)

\* The ENQ limit of the timeout scenario of the specification, with the
\* counters it names followed.
EnqCfg ==
    [BaseCfg EXCEPT !.max_enq = 2, !.maxMsgs = MaxMsgsRx,
                    !.maxPeer = MaxPeerRx, !.chunks = {"ack", "enq"},
                    !.diag = {"enqs_out", "resp_timeouts", "tx_fail"}]

InitEnq == InitWith(EnqCfg)

\* Termination: the peer may also leave a frame unfinished.
LiveCfg ==
    [BaseCfg EXCEPT !.chunks = {"ack", "nak", "head", "frame"},
                    !.nclients = 1, !.maxPeer = MaxPeerRx]

InitLive == InitWith(LiveCfg)

\* Duplicate detection: the peer sends frames for client 1, one of them
\* with zeros at the offsets of the fingerprint.
DupCfg ==
    [BaseCfg EXCEPT !.dup_detect = TRUE, !.chunks = {"frame", "zero"},
                    !.nclients = 1, !.maxPeer = MaxPeerRx,
                    !.maxMsgs = MaxMsgsRx, !.diag = {"msg_rx", "dups"}]

InitDup == InitWith(DupCfg)

\* Frames the receiver has to refuse: too short, with or without a good
\* checksum, after a good frame.
RuntCfg ==
    [DupCfg EXCEPT !.chunks = {"frame", "runt", "runtbad"},
                   !.diag = {"runts"}]

InitRunt == InitWith(RuntCfg)

\* Frames the receiver should refuse though their checksum is good: one
\* longer than the application buffer, one with a byte after a DLE that
\* is not allowed there.
OvfCfg ==
    [BaseCfg EXCEPT !.chunks = {"frame", "long", "baddle"}, !.nclients = 1,
                    !.maxPeer = MaxPeerRx, !.maxMsgs = MaxMsgsRx,
                    !.diag = {"rx_overflow"}]

InitOvf == InitWith(OvfCfg)

\* The peer's transmitter times out: it sends DLE ENQ after its frame.
PendEnqCfg ==
    [BaseCfg EXCEPT !.chunks = {"frame", "enq"}, !.nclients = 1,
                    !.maxPeer = MaxPeerRx, !.maxMsgs = MaxMsgsRx,
                    !.diag = {"enqs_in", "rx_timeouts"}]

InitPendEnq == InitWith(PendEnqCfg)

\* The peer asks again for the last response, between frames, after noise
\* and inside a frame it has begun.
LastRespCfg ==
    [BaseCfg EXCEPT !.chunks = {"frame", "enq", "head", "junk", "ack"},
                    !.nclients = 1, !.maxMsgs = MaxMsgsRx,
                    !.diag = {"enqs_in", "msg_rx"}]

InitLastResp == InitWith(LastRespCfg)

\* Timers: the peer leaves frames unfinished and puts its responses inside
\* them.
EmbedCfg ==
    [BaseCfg EXCEPT !.chunks = {"head", "ack", "frame"}, !.nclients = 1]

InitEmbed == InitWith(EmbedCfg)

\* Arbitration: three registered clients that keep to the protocol compete
\* for the transmitter and the peer acknowledges.
OrderCfg ==
    [BaseCfg EXCEPT !.chunks = {"ack"}, !.nclients = MaxClientsRR,
                    !.order = TRUE, !.behaved = TRUE,
                    !.maxMsgs = MaxMsgsRR,
                    !.maxPeer = MaxPeerRR]

InitOrder == InitWith(OrderCfg)

(***************************************************************************)
(* Actions: one dispatch of the main loop each.                            *)
(***************************************************************************)
\* The handler starts with an empty record of its own doings.
Begin == [St EXCEPT !.h.ev = <<>>]

\* Counters and the number of inputs stay within the model's range.
Bounded(t) ==
    /\ t.h.accepts <= MaxAccepts
    /\ t.h.msgs <= cfg.maxMsgs
    /\ t.h.peer <= cfg.maxPeer
    /\ t.h.gone <= cfg.maxGone
    /\ \A f \in DiagNames : t.dcnts[f] <= MaxCnt
    /\ \A i \in 1..Len(t.clients) : t.clients[i].rx_timeouts <= MaxCnt
    /\ \A i \in 1..Len(t.clients) : t.clients[i].name_len_rcvd <= MaxNameRcvd

Do(t) == Bounded(t) /\ Commit(t)

ClientAccept ==
    /\ Len(clients) < MaxClients
    /\ LET free == (1..MaxClients) \ Ids(St)
       IN Do(client_accept(Begin, CHOOSE i \in free : \A j \in free : i <= j))

\* What one read() on a client's socket may return: a byte, or from a
\* client that keeps to the protocol a whole message once it is IDLE.
ClientReads(c) ==
    IF cfg.behaved /\ c.state = CLIENT_IDLE
    THEN {<<MSG_SOH, 1, b>> : b \in cfg.payload}
    ELSE {<<b>> : b \in ClientBytes(c)}

ClientRead ==
    \E i \in 1..Len(clients) : \E sock_in \in ClientReads(clients[i]) :
        Do(client_read(Begin, clients[i].id, sock_in))

\* read() on the client socket fails or returns end of file.
ClientGone ==
    \E i \in 1..Len(clients) :
        Do(close_client([Begin EXCEPT !.h.gone = @ + 1], clients[i].id))

\* Sizes write() may accept of rem bytes offered.
WriteSizes(rem) == {rem}

ClientWrite ==
    \E i \in 1..Len(clients) :
        /\ buf_write_ready(clients[i].sock_out)
        /\ \E n \in WriteSizes(buf_len(clients[i].sock_out)
                                - clients[i].sock_out.index) :
              Do(write_client(Begin, clients[i].id, n))

TtyRead ==
    \E name \in cfg.chunks :
        Do(parse_tty_data([Begin EXCEPT !.h.m.quiet = FALSE,
                                        !.h.peer = @ + 1], Chunk(name)))

TtyWrite ==
    /\ buf_write_ready(conn.tty_out)
    /\ \E n \in WriteSizes(buf_len(conn.tty_out) - conn.tty_out.index) :
          Do(tty_write(Begin, n))

Tick == Do(conn_tick(Begin))

Next ==
    \/ ClientRead
    \/ ClientGone
    \/ ClientWrite
    \/ TtyRead
    \/ TtyWrite
    \/ Tick

Spec == Init /\ [][Next]_vars

SpecRx == InitRx /\ [][Next]_vars

SpecEnq == InitEnq /\ [][Next]_vars

SpecDup == InitDup /\ [][Next]_vars

SpecRunt == InitRunt /\ [][Next]_vars

SpecOvf == InitOvf /\ [][Next]_vars

SpecPendEnq == InitPendEnq /\ [][Next]_vars

SpecLastResp == InitLastResp /\ [][Next]_vars

SpecEmbed == InitEmbed /\ [][Next]_vars

\* No client's connection breaks, and the clients leave what the daemon
\* sends them in their sockets.
NextStay ==
    \/ ClientRead
    \/ TtyRead
    \/ TtyWrite
    \/ Tick

SpecOrder == InitOrder /\ [][NextStay]_vars

\* The main loop runs conn_tick after every timer signal and writes to the
\* TTY whenever its output buffer holds unwritten bytes.  The fairness of
\* Tick is written out for the states in which the transmitter waits for
\* the peer's response: a transmitter that stays in PEND_RESP sees ticks
\* again and again.  WF_vars(Tick) implies it.
FairSpec ==
    /\ InitLive /\ [][Next]_vars
    /\ WF_vars(TtyWrite)
    /\ ([]<>(tx.state # "TX_PEND_RESP") \/ []<><<Tick>>_vars)

\* The connection from its construction: clients connect and register.
NextAll ==
    \/ ClientAccept
    \/ ClientRead
    \/ ClientGone
    \/ ClientWrite
    \/ TtyRead
    \/ TtyWrite
    \/ Tick

SpecReg == InitReg /\ [][NextAll]_vars

SpecRegLen == InitRegLen /\ [][NextAll]_vars

(***************************************************************************)
(* Properties.                                                             *)
(***************************************************************************)
\* Is there an event e in the handler's record evs.
Has(evs, e) == \E k \in 1..Len(evs) : evs[k].e = e

HasEv(e) == Has(hist.ev, e)

\* C1: a client message is handed to the transmitter (tx_msg) only when the
\* transmitter is IDLE and holds no encoded message, so at most one
\* outbound message is in flight.
C1_HandoffOnlyWhenIdle == ~hist.handoffBusy

\* A message is in the transmitter while another client's message waits.
C1_Witness ==
    /\ tx.state # "TX_IDLE"
    /\ tx.client # NULL
    /\ \E i \in 1..Len(clients) :
          clients[i].state = CLIENT_MSG_READY /\ clients[i].id # tx.client

C4_ClientIffPend == (rx.client # NULL) <=> (rx.state = "RX_PEND")

\* C5 as stated: no frame is completed or delivered while a delivered one
\* awaits its client, and the DLE ACK or DLE NAK of a delivered frame is in
\* the TTY output before a later frame is delivered.
C5_ResponseBeforeNextFrame == ~hist.pendAccept /\ ~hist.unanswered

\* C5 amended: no frame is completed or delivered while a delivered one
\* awaits its client (the receiver is in PEND exactly then); when the
\* receiver leaves PEND the DLE ACK or DLE NAK is put into the TTY output
\* unless fewer than two bytes are free there, in which case it is dropped.
C5_NoFrameWhilePend ==
    /\ ~hist.pendAccept
    /\ (hist.owed = "yes") <=> (rx.state = "RX_PEND")
    /\ \A k \in 1..Len(hist.ev) :
          hist.ev[k].e = "resplost" =>
              Len(conn.tty_out.data) >= TtyBufSize - 1

\* The peer started a frame while a delivered one awaited its client, and
\* the receiver is still waiting.
C5_Witness == HasEv("pendrx") /\ rx.state = "RX_PEND" /\ hist.owed = "yes"

\* The client the transmitter works for, before and after the step.
Originator(i) == clients[i].id = tx.client /\ clients'[i].id = tx.client

\* The step ends the message that was in the transmitter with the byte b to
\* its client, if that client is still connected: the retry counters are
\* cleared and the transmitter is IDLE and empty, unless the arbitrator has
\* handed it the next message in the same call.
Completes(b) ==
    /\ tx'.nak_cnt = 0
    /\ tx'.enq_cnt = 0
    /\ \/ tx'.state = "TX_IDLE" /\ tx'.msg = buf_empty
       \/ Has(hist'.ev, "handoff")
    /\ tx.client # NULL =>
          \E i \in 1..Len(clients) :
              /\ Originator(i)
              /\ clients'[i].state = CLIENT_IDLE
              /\ clients'[i].sock_out.data =
                     Append(clients[i].sock_out.data, b)

\* The same, with what the code does when the client's socket output is
\* full: nothing is appended.
CompletesIfRoom(b) ==
    /\ tx'.nak_cnt = 0
    /\ tx'.enq_cnt = 0
    /\ \/ tx'.state = "TX_IDLE" /\ tx'.msg = buf_empty
       \/ Has(hist'.ev, "handoff")
    /\ tx.client # NULL =>
          \E i \in 1..Len(clients) :
              /\ Originator(i)
              /\ clients'[i].state = CLIENT_IDLE
              /\ clients'[i].sock_out.data =
                     IF Len(clients[i].sock_out.data) < ClientBufSize
                     THEN Append(clients[i].sock_out.data, b)
                     ELSE clients[i].sock_out.data

\* The frame in the transmitter is appended once more to the TTY output.
Retransmits ==
    /\ tx' = [tx EXCEPT !.nak_cnt = @ + 1, !.state = "TX_PEND_MSG_TX"]
    /\ conn'.tty_out.data = conn.tty_out.data \o tx.msg.data
    /\ clients' = clients

\* With max_nak = 2, a peer ACK that follows one NAK finds the frame sent
\* twice, and the client is told of the success once.
OneNakThenAck ==
    \A k \in 1..Len(hist'.ev) :
        (/\ cfg.max_nak = 2
         /\ hist'.ev[k].e = "ack"
         /\ hist'.ev[k].st = "TX_PEND_RESP"
         /\ hist'.ev[k].naks = 1) =>
            /\ hist'.ev[k].m.frames = 2
            /\ hist'.ev[k].txc # NULL =>
                  Cardinality({j \in 1..Len(hist'.ev) :
                                  /\ hist'.ev[j].e = "notify"
                                  /\ hist'.ev[j].c = hist'.ev[k].txc
                                  /\ hist'.ev[j].b = MSG_ACK}) = 1

\* C6 as stated: a peer NAK in PEND_RESP increments nak_cnt; below max_nak
\* the identical frame is appended to the TTY output again and the state is
\* PEND_MSG_TX, otherwise the message is flushed and its client gets one
\* NAK byte; with max_nak = 2 one NAK and one ACK give one retransmission
\* and one MSG_ACK.
C6_NakRetransmitsOrFails ==
    [][/\ (Has(hist'.ev, "nak") /\ tx.state = "TX_PEND_RESP") =>
             IF tx.nak_cnt + 1 < cfg.max_nak THEN Retransmits
             ELSE Completes(MSG_NAK)
       /\ OneNakThenAck]_vars

\* C6 amended: the retransmission happens when the frame also fits into the
\* TTY output; when it does not fit the message is failed at once, as it is
\* at max_nak.
C6_NakRetransmitsIfRoom ==
    [][/\ (Has(hist'.ev, "nak") /\ tx.state = "TX_PEND_RESP") =>
             IF /\ tx.nak_cnt + 1 < cfg.max_nak
                /\ Len(conn.tty_out.data) + Len(tx.msg.data) <= TtyBufSize
             THEN Retransmits
             ELSE CompletesIfRoom(MSG_NAK)
       /\ OneNakThenAck]_vars

\* The peer acknowledges a message it has refused once.
C6_Witness ==
    \E k \in 1..Len(hist.ev) :
        /\ hist.ev[k].e = "ack"
        /\ hist.ev[k].st = "TX_PEND_RESP"
        /\ hist.ev[k].naks = 1
        /\ hist.ev[k].m.frames = 2
        /\ HasEv("notify")

\* DLE ENQ is appended to the TTY output and the transmitter waits for it
\* to drain.
SendsEnq ==
    /\ tx' = [tx EXCEPT !.enq_cnt = @ + 1, !.eticks = @ + 1,
                        !.state = "TX_PEND_MSG_TX"]
    /\ conn'.tty_out.data = conn.tty_out.data \o <<SYM_DLE, SYM_ENQ>>
    /\ clients' = clients

\* The response timer restarts when the TTY output drains.
TimerRestarts ==
    (/\ tx.state = "TX_PEND_MSG_TX"
     /\ conn.tty_out.data # <<>>
     /\ conn'.tty_out.data = <<>>) =>
        tx' = [tx EXCEPT !.state = "TX_PEND_RESP", !.eticks = 0]

\* A message that fails for timeouts with the peer silent since tx_msg has
\* had max_enq ENQs sent for it.
SilentPeerEnqs ==
    \A k \in 1..Len(hist'.ev) :
        (hist'.ev[k].e = "enqfail" /\ hist'.ev[k].m.quiet) =>
            hist'.ev[k].m.enqs = cfg.max_enq

\* C7 as stated: every response timeout increments enq_cnt; the message
\* is failed exactly when enq_cnt > max_enq, otherwise DLE ENQ goes into the
\* TTY output, the state is PEND_MSG_TX and the timer restarts at the drain;
\* a silent peer gets max_enq ENQs before the failure.
C7_TimeoutEnqOrFail ==
    [][/\ Has(hist'.ev, "tmo") =>
             IF tx.enq_cnt + 1 > cfg.max_enq THEN Completes(MSG_NAK)
             ELSE SendsEnq
       /\ TimerRestarts
       /\ SilentPeerEnqs]_vars

\* C7 amended: the message is also failed when DLE ENQ does not fit into
\* the TTY output.
C7_TimeoutEnqIfRoom ==
    [][/\ Has(hist'.ev, "tmo") =>
             IF \/ tx.enq_cnt + 1 > cfg.max_enq
                \/ Len(conn.tty_out.data) + 2 > TtyBufSize
             THEN CompletesIfRoom(MSG_NAK)
             ELSE SendsEnq
       /\ TimerRestarts
       /\ SilentPeerEnqs
       /\ tx.enq_cnt <= cfg.max_enq]_vars

\* A message has failed for timeouts with the peer silent, after max_enq
\* ENQs.
C7_Witness ==
    \E k \in 1..Len(hist.ev) :
        /\ hist.ev[k].e = "enqfail"
        /\ hist.ev[k].m.quiet
        /\ hist.ev[k].m.enqs = cfg.max_enq
        /\ cfg.max_enq > 0

\* A peer DLE ACK that finds the transmitter outside PEND_RESP changes
\* nothing of the transmitter and the clients, and clears last_was_ack.
UnexpectedAck ==
    /\ tx' = tx
    /\ clients' = clients
    /\ ~rx'.last_was_ack

\* C10 as stated: a peer DLE ACK completes the transmission only in
\* PEND_RESP (transmitter IDLE, one ACK byte to the originating client,
\* which goes IDLE); in IDLE or PEND_MSG_TX it leaves the transmitter and
\* the clients unchanged and clears last_was_ack.
C10_AckOnlyInPendResp ==
    [][Has(hist'.ev, "ack") =>
          IF tx.state = "TX_PEND_RESP" THEN Completes(MSG_ACK)
          ELSE UnexpectedAck]_vars

\* C10 amended: the ACK byte goes to the originating client unless its
\* socket output is full.
C10_AckCompletesIfRoom ==
    [][Has(hist'.ev, "ack") =>
          IF tx.state = "TX_PEND_RESP" THEN CompletesIfRoom(MSG_ACK)
          ELSE UnexpectedAck]_vars

\* A peer DLE ACK has completed a message and its client has the ACK byte.
C10_Witness ==
    \E k \in 1..Len(hist.ev) :
        /\ hist.ev[k].e = "ack"
        /\ hist.ev[k].st = "TX_PEND_RESP"
        /\ \E j \in 1..Len(hist.ev) :
              /\ hist.ev[j].e = "notify"
              /\ hist.ev[j].b = MSG_ACK
              /\ hist.ev[j].c = hist.ev[k].txc

\* No two registered clients hold the same addr.
AddrUnique ==
    \A i, j \in 1..Len(clients) :
        (/\ i # j
         /\ clients[i].state >= CLIENT_IDLE
         /\ clients[j].state >= CLIENT_IDLE) =>
            clients[i].addr # clients[j].addr

\* The client list without the client id.
Without(cs, id) ==
    LET Keep(c) == c.id # id
    IN SelectSeq(cs, Keep)

\* The registration that has just failed was for an addr a registered
\* client holds; the registering client is gone from the list and every
\* other client is as it was.
RegFailCloses ==
    \A k \in 1..Len(hist'.ev) :
        hist'.ev[k].e = "regfail" =>
            /\ \E i, j \in 1..Len(clients) :
                  /\ clients[i].id = hist'.ev[k].c
                  /\ clients[i].state = CLIENT_REG_NAME
                  /\ clients[j].state >= CLIENT_IDLE
                  /\ clients[j].addr = clients[i].addr
            /\ clients' = Without(clients, hist'.ev[k].c)

\* A registration succeeds only for an addr no registered client holds.
RegSucceeds ==
    \A k \in 1..Len(hist'.ev) :
        hist'.ev[k].e = "reg" =>
            \A i, j \in 1..Len(clients) :
                (clients[i].id = hist'.ev[k].c
                 /\ clients[j].state >= CLIENT_IDLE) =>
                    clients[j].addr # clients[i].addr

\* C3: no two clients in a registered state hold the same addr; a
\* registration for an addr a registered client holds fails, the registering
\* client is closed and every other client is left unchanged.
C3_AddrUniqueRegFailCloses ==
    /\ []AddrUnique
    /\ [][RegFailCloses /\ RegSucceeds]_vars

\* A registration has failed while the holder of the addr stays registered.
C3_Witness ==
    /\ HasEv("regfail")
    /\ \E i \in 1..Len(clients) : clients[i].state >= CLIENT_IDLE

\* C8 as stated: with max_enq = 2 and a silent peer the message fails at the
\* second response timeout, its client has one MSG_NAK, and the counters
\* are enqs_out = 2, resp_timeouts = 2 and tx_fail = 1.
C8_SilentPeerCounters ==
    \A k \in 1..Len(hist.ev) :
        (/\ cfg.max_enq = 2
         /\ hist.ev[k].e = "enqfail"
         /\ hist.ev[k].m.quiet) =>
            /\ hist.ev[k].tmo = 2
            /\ dcnts.enqs_out = 2
            /\ dcnts.resp_timeouts = 2
            /\ dcnts.tx_fail = 1
            /\ hist.ev[k].txc # NULL =>
                  \E j \in 1..Len(hist.ev) :
                      /\ hist.ev[j].e = "notify"
                      /\ hist.ev[j].c = hist.ev[k].txc
                      /\ hist.ev[j].b = MSG_NAK

\* The n-th message handed to the transmitter is in it.
InTx(n) == hist.seq = n /\ tx.state # "TX_IDLE"

\* The n-th message has left the transmitter.
Terminated(n) == hist.seq > n \/ tx.state = "TX_IDLE"

\* Every message handed to the transmitter leaves it again, within the NAK
\* and ENQ limits.
Terminates ==
    /\ \A n \in 1..MaxMsgs : InTx(n) ~> Terminated(n)
    /\ [](/\ tx.nak_cnt < cfg.max_nak
          /\ tx.enq_cnt <= cfg.max_enq
          /\ hist.m.enqs <= cfg.max_enq
          /\ tx.state = "TX_IDLE" => hist.owner = NULL)

\* C9 as stated: every message the transmitter accepts leaves it again,
\* after at most max_nak NAKs and max_enq ENQs, and its completion byte is
\* in the socket output of the originating client, if that is connected.
C9_TerminatesReported ==
    /\ Terminates
    /\ [](~HasEv("lost"))

\* C9 amended: every message the transmitter accepts leaves it again, after
\* at most max_nak NAKs and max_enq ENQs; its completion byte is put into
\* the socket output of the originating client unless that client has
\* closed or the buffer is full.
C9_MessageTerminates ==
    /\ Terminates
    /\ [](\A k \in 1..Len(hist.ev) :
            /\ hist.ev[k].e = "defunct" => hist.ev[k].txc = NULL
            /\ hist.ev[k].e = "lost" =>
                  \E i \in 1..Len(clients) :
                      /\ clients[i].id = hist.ev[k].c
                      /\ Len(clients[i].sock_out.data) = ClientBufSize)

\* The second message has ended by timeouts, the peer being silent.
C9_Witness ==
    /\ hist.seq = MaxMsgs
    /\ tx.state = "TX_IDLE"
    /\ \E k \in 1..Len(hist.ev) :
          hist.ev[k].e = "enqfail" /\ hist.ev[k].m.quiet

\* The handler has ended the message in the transmitter (flush_msg, then the
\* completion for its client).
Flushed == \E k \in 1..Len(hist'.ev) :
               hist'.ev[k].e \in {"notify", "lost", "defunct"}

\* C11: nak_cnt and enq_cnt are zero whenever the transmitter is IDLE; a
\* step that does not end the message lowers neither counter, so that a
\* retransmission leaves enq_cnt and an ENQ leaves nak_cnt as they were,
\* and a step that ends the message leaves both at zero.
C11_CountersResetOnlyAtIdle ==
    /\ [](tx.state = "TX_IDLE" => tx.nak_cnt = 0 /\ tx.enq_cnt = 0)
    /\ [][IF Flushed
          THEN tx'.nak_cnt = 0 /\ tx'.enq_cnt = 0
          ELSE /\ tx'.nak_cnt >= tx.nak_cnt
               /\ tx'.enq_cnt >= tx.enq_cnt
               /\ (Has(hist'.ev, "frame") /\ ~Has(hist'.ev, "handoff")) =>
                     tx'.nak_cnt = tx.nak_cnt + 1 /\ tx'.enq_cnt = tx.enq_cnt
               /\ Has(hist'.ev, "enq") =>
                     tx'.enq_cnt = tx.enq_cnt + 1 /\ tx'.nak_cnt = tx.nak_cnt]_vars

\* One message has been retransmitted after a NAK and then had an ENQ sent
\* for it: both counts stand.
C11_Witness == tx.nak_cnt = 1 /\ tx.enq_cnt = 1 /\ tx.state # "TX_IDLE"

\* The first frame of the connection is not taken for a duplicate.
FirstNotDup == hist.dupOf # "none"

\* A frame is not taken for a duplicate of one that was answered with NAK.
NakedNotDup == hist.dupOf # "nak"

\* C12 as stated: a frame is taken for a duplicate only with duplicate
\* detection enabled and only of a message that was accepted: not the first
\* valid frame after start-up, and not the retransmission of a frame that
\* was answered with NAK.
C12_DupOnlyOfAccepted ==
    /\ HasEv("dup") => cfg.dup_detect
    /\ FirstNotDup
    /\ NakedNotDup

\* The duplicate fingerprint of the application bytes in b.
Fingerprint(b) == <<b.data[2], b.data[3], b.data[5], b.data[6]>>

\* The step completes a frame with a good checksum whose fingerprint is
\* that of the frame before it, which its client has acknowledged.
SameFrameAgain ==
    /\ hist.fp = "accepted"
    /\ Has(hist'.ev, "new") \/ Has(hist'.ev, "dup")
    /\ Fingerprint(rx'.app) = rx.dup

\* A client acknowledges only a frame that was delivered to it.
AcceptedWasDelivered ==
    (hist'.fp = "accepted" /\ hist.fp # "accepted") =>
        /\ hist.owed = "yes"
        /\ rx.state = "RX_PEND"

\* After the two frames of the scenario msg_rx = 1 and dups = 1.
TwoFrameCounters == hist'.peer = 2 => dcnts'.msg_rx = 1 /\ dcnts'.dups = 1

\* C13 as stated: with duplicate detection, the frame a client has
\* acknowledged was delivered to it, and the same frame sent again is
\* answered with DLE ACK in the TTY output and delivered to no client;
\* after the two frames msg_rx = 1 and dups = 1.
C13_SecondFrameAcked ==
    [][/\ AcceptedWasDelivered
       /\ SameFrameAgain =>
             /\ Has(hist'.ev, "dup")
             /\ conn'.tty_out.data = conn.tty_out.data \o <<SYM_DLE, SYM_ACK>>
             /\ clients' = clients
             /\ TwoFrameCounters]_vars

\* C13 amended: the DLE ACK for the second frame is put into the TTY
\* output as far as it has room: both bytes, the DLE alone, or nothing.
C13_SecondFrameAckedIfRoom ==
    [][/\ AcceptedWasDelivered
       /\ SameFrameAgain =>
             /\ Has(hist'.ev, "dup")
             /\ conn'.tty_out.data =
                    SubSeq(conn.tty_out.data \o <<SYM_DLE, SYM_ACK>>, 1,
                           IF Len(conn.tty_out.data) + 2 <= TtyBufSize
                           THEN Len(conn.tty_out.data) + 2
                           ELSE TtyBufSize)
             /\ rx'.state = "RX_IDLE" /\ rx'.last_was_ack
             /\ clients' = clients
             /\ TwoFrameCounters]_vars

\* The second of two equal frames has been answered with DLE ACK, the
\* first having been delivered and acknowledged by its client.
C13_Witness ==
    /\ hist.dupOf = "accepted"
    /\ HasEv("dup")
    /\ \E k \in 1..Len(hist.ev) :
          hist.ev[k].e = "resp" /\ hist.ev[k].b = SYM_ACK
    /\ dcnts.msg_rx = 1 /\ dcnts.dups = 1

\* The step completes a frame: accept_msg has classified it.
FrameCompleted ==
    \E k \in 1..Len(hist'.ev) : hist'.ev[k].e \in {"runt", "badcs", "new", "dup"}

\* What DLE sym leaves in the TTY output: both bytes when two are free,
\* the DLE alone when one is, nothing otherwise.
RespIfRoom(sym) ==
    conn'.tty_out.data =
        SubSeq(conn.tty_out.data \o <<SYM_DLE, sym>>, 1,
               IF Len(conn.tty_out.data) + 2 <= TtyBufSize
               THEN Len(conn.tty_out.data) + 2
               ELSE TtyBufSize)

\* The completed frame is a runt: counted, not compared with nor stored
\* into the fingerprint, handed to nobody, the receiver IDLE with a NAK as
\* its last response.
RuntRefused ==
    /\ Has(hist'.ev, "runt")
    /\ dcnts'.runts = dcnts.runts + 1
    /\ ~Has(hist'.ev, "dup") /\ ~Has(hist'.ev, "new")
    /\ rx'.dup = rx.dup
    /\ hist'.dupOf = hist.dupOf
    /\ clients' = clients
    /\ rx'.state = "RX_IDLE" /\ ~rx'.last_was_ack

\* C14 as stated: a completed frame of fewer than 6 application bytes is
\* answered with DLE NAK and counted in runts, its checksum good or bad, is
\* not compared with nor stored into the fingerprint and is not delivered.
C14_RuntNakBeforeDup ==
    [][(FrameCompleted /\ buf_len(rx'.app) < 6) =>
          /\ RuntRefused
          /\ conn'.tty_out.data = conn.tty_out.data \o <<SYM_DLE, SYM_NAK>>]_vars

\* C14 amended: the DLE NAK is put into the TTY output as far as it has
\* room.
C14_RuntNakIfRoom ==
    [][(FrameCompleted /\ buf_len(rx'.app) < 6) =>
          RuntRefused /\ RespIfRoom(SYM_NAK)]_vars

\* A runt with a bad checksum has been refused after a good frame, whose
\* fingerprint is still the stored one.
C14_Witness ==
    /\ HasEv("runt")
    /\ ~cs_ok(St)
    /\ rx.dup = Fingerprint([data |-> PeerApp(1)])
    /\ conn.tty_out.data # <<>>
    /\ conn.tty_out.data[Len(conn.tty_out.data)] = SYM_NAK

\* C15 as stated: a frame whose application bytes exceed the receiver's
\* buffer is consumed to its end, and when it completes it is answered with
\* DLE NAK and nothing is handed to any client, although its checksum over
\* all the bytes received matches.
C15_OverflowNak ==
    [][(FrameCompleted /\ rx'.overflow) =>
          /\ conn'.tty_out.data = conn.tty_out.data \o <<SYM_DLE, SYM_NAK>>
          /\ clients' = clients]_vars

\* The response alone: DLE NAK, as far as the TTY output has room.
OverflowAnsweredNak ==
    [][(FrameCompleted /\ rx'.overflow) => RespIfRoom(SYM_NAK)]_vars

\* C16 as stated: a frame in which a DLE is followed by a byte other than
\* DLE, ETX, ACK or NAK is answered with DLE NAK when it completes and is
\* not delivered, although the checksum of its other bytes matches.
C16_BadDleNak ==
    [][(FrameCompleted /\ Has(hist'.ev, "baddle")) =>
          /\ conn'.tty_out.data = conn.tty_out.data \o <<SYM_DLE, SYM_NAK>>
          /\ ~Has(hist'.ev, "deliver")
          /\ clients' = clients]_vars

\* The delivery alone: such a frame is handed to no client.
BadDleNotDelivered ==
    [][(FrameCompleted /\ Has(hist'.ev, "baddle")) =>
          ~Has(hist'.ev, "deliver")]_vars

\* The step is the receipt of one DLE ENQ outside a frame.
EnqReceived == dcnts'.enqs_in = dcnts.enqs_in + 1

\* The client the receiver waits for has one more rx_timeout; the clients
\* are otherwise as they were.
PendingClientTimedOut ==
    \E i \in 1..Len(clients) :
        /\ clients[i].id = rx.client
        /\ clients' = [clients EXCEPT ![i].rx_timeouts = @ + 1]

\* The receiver is IDLE and waits for no client.
ReceiverReleased == rx'.state = "RX_IDLE" /\ rx'.client = NULL

\* While the receiver waits for no client, nothing a client sends and no
\* tick puts a response into the TTY output.
NoResponseUnasked ==
    (rx.client = NULL /\ hist'.peer = hist.peer) =>
        ~Has(hist'.ev, "resp") /\ ~Has(hist'.ev, "resplost")

\* C17 as stated: a DLE ENQ received in PEND puts one DLE ACK into the TTY
\* output, increments the pending client's rx_timeouts and leaves the
\* receiver IDLE without a pending client; the client's later ACK or NAK
\* byte produces no response.
C17_EnqInPendAcks ==
    [][/\ (EnqReceived /\ rx.state = "RX_PEND") =>
             /\ conn'.tty_out.data = conn.tty_out.data \o <<SYM_DLE, SYM_ACK>>
             /\ PendingClientTimedOut
             /\ ReceiverReleased
       /\ NoResponseUnasked]_vars

\* C17 amended: the DLE ACK is put into the TTY output as far as it has
\* room.
C17_EnqInPendAcksIfRoom ==
    [][/\ (EnqReceived /\ rx.state = "RX_PEND") =>
             /\ RespIfRoom(SYM_ACK)
             /\ PendingClientTimedOut
             /\ ReceiverReleased
             /\ rx'.last_was_ack
       /\ NoResponseUnasked]_vars

\* The peer's ENQ has closed out a delivered frame, and the client's late
\* answer has found the receiver waiting for nobody.
C17_Witness ==
    /\ \E i \in 1..Len(clients) : clients[i].rx_timeouts = 1
    /\ rx.state = "RX_IDLE" /\ rx.client = NULL
    /\ conn.tty_out.data = <<SYM_DLE, SYM_ACK>>
    /\ hist.peer = 2
    /\ hist.ev = <<>>

\* A DLE ENQ of the peer that arrived inside a frame.
EnqInFrame ==
    \E k \in 1..Len(hist'.ev) :
        hist'.ev[k].e = "baddle" /\ hist'.ev[k].b = SYM_ENQ

\* The response the peer is owed again.
LastResponse == IF hist.lastAck THEN SYM_ACK ELSE SYM_NAK

\* C18 as stated: a DLE ENQ received while the receiver is not PEND is
\* answered with the last response: DLE ACK when the last response was an
\* ACK and no receive timeout, spurious byte or unexpected ACK or NAK came
\* since, DLE NAK otherwise and before any frame.
C18_EnqRepeatsLast ==
    [][/\ ((EnqReceived \/ EnqInFrame) /\ rx.state # "RX_PEND") =>
             conn'.tty_out.data = conn.tty_out.data \o <<SYM_DLE, LastResponse>>
       /\ (EnqReceived /\ dcnts.msg_rx = 0) =>
             conn'.tty_out.data = conn.tty_out.data \o <<SYM_DLE, SYM_NAK>>]_vars

\* C18 amended: the ENQ is one received while the receiver is IDLE, and the
\* response is put into the TTY output as far as it has room; a DLE ENQ
\* inside a frame is not answered.
C18_EnqRepeatsLastIfRoom ==
    [][/\ (EnqReceived /\ rx.state # "RX_PEND") =>
             /\ rx.state = "RX_IDLE" /\ rx'.state = "RX_IDLE"
             /\ RespIfRoom(LastResponse)
             /\ rx'.last_was_ack = hist.lastAck
       /\ (EnqReceived /\ dcnts.msg_rx = 0) => RespIfRoom(SYM_NAK)
       /\ EnqInFrame =>
             /\ conn'.tty_out = conn.tty_out
             /\ ~EnqReceived]_vars

\* The frame's DLE ACK has been repeated for the peer's ENQ.
C18_Witness ==
    /\ conn.tty_out.data = <<SYM_DLE, SYM_ACK, SYM_DLE, SYM_ACK>>
    /\ dcnts.enqs_in = 1 /\ dcnts.msg_rx = 1
    /\ hist.peer = 2
    /\ rx.state = "RX_IDLE" /\ rx.last_was_ack

\* The step puts no response of the receiver into the TTY output.
NoResponse == ~Has(hist'.ev, "resp") /\ ~Has(hist'.ev, "resplost")

\* The receive timeout has run out with this tick: the receiver is IDLE
\* with its last response cleared, the frame is handed to nobody and the
\* receiver's tick leaves the TTY output as it found it.
RxExpired ==
    /\ rx' = [rx EXCEPT !.eticks = @ + 1, !.state = "RX_IDLE",
                        !.last_was_ack = FALSE]
    /\ NoResponse /\ ~Has(hist'.ev, "deliver")
    /\ rx_tick(Begin).conn = conn

\* C19: a tick advances the receive timer only in APP, CS1 and CS2; when
\* it runs out the frame is dropped, the receiver is IDLE with last_was_ack
\* cleared and no response is put into the TTY output; a tick in IDLE or
\* PEND leaves the receiver as it is, and the next frame starts afresh.
C19_RxTimeoutOnlyInFrame ==
    [][/\ Tick =>
             IF rx_active(rx)
             THEN IF rx.eticks + 1 > RxTticks THEN RxExpired
                  ELSE rx' = [rx EXCEPT !.eticks = @ + 1]
             ELSE rx' = rx
       /\ (rx.state = "RX_IDLE" /\ Has(hist'.ev, "new")) =>
             rx'.app.data = PeerApp(1)]_vars

\* The timeout has dropped an unfinished frame without a response.
C19_Witness ==
    /\ rx.state = "RX_IDLE" /\ rx.eticks = RxTticks + 1
    /\ rx.app.data = <<1, 7>>
    /\ conn.tty_out.data = <<>>
    /\ hist.peer = 1

\* The peer's response arrived inside a frame.
EmbeddedSeen ==
    /\ rx_active(rx) /\ hist'.peer = hist.peer + 1
    /\ Has(hist'.ev, "ack") \/ Has(hist'.ev, "nak")

FixedClients == Len(clients) = cfg.nclients

\* Client id waits with a complete message.
Waiting(id) ==
    \E i \in 1..Len(clients) :
        clients[i].id = id /\ clients[i].state = CLIENT_MSG_READY

\* Client id's message is with the transmitter and its buffer is empty.
Moved(id) ==
    \E i \in 1..Len(clients) :
        /\ clients[i].id = id /\ clients[i].state = CLIENT_MSG_PEND
        /\ clients[i].df1_tx = buf_empty

\* While a client waits, no other client has a second message handed to the
\* transmitter.
NoneServedTwice ==
    FixedClients =>
        \A k, j \in 1..MaxClientsRR : Waiting(k) => hist.passed[k][j] <= 1

\* A client waits only while the transmitter is busy.
WaitsOnlyWhileBusy == (\E k \in 1..MaxClientsRR : Waiting(k)) => tx_busy(tx)

\* C21: with no client closed, no other client has two messages handed to
\* the transmitter while a client waits in MSG_READY, and if no message
\* stays in the transmitter for ever, a waiting client is moved to MSG_PEND
\* with its df1_tx buffer empty.
C21_RoundRobin ==
    /\ [](NoneServedTwice /\ WaitsOnlyWhileBusy)
    /\ ([]FixedClients /\ \A n \in 1..MaxMsgsRR : []<>~InTx(n))
           => \A k \in 1..MaxClientsRR : Waiting(k) ~> Moved(k)

\* Client 1 waits while the message of client 3, which became ready after
\* it, has been handed over in its turn after that of client 2.
C21_Witness ==
    /\ FixedClients /\ Waiting(1)
    /\ hist.passed[1][3] = 1 /\ tx.client = 3

\* The step closes the client whose message is in the transmitter.
OwnerClosed ==
    /\ tx.client # NULL /\ tx.state # "TX_IDLE"
    /\ \E k \in 1..Len(hist'.ev) :
          hist'.ev[k].e = "close" /\ hist'.ev[k].c = tx.client

\* The step ends a transmission whose client is gone.
DefunctEnds ==
    /\ tx.client = NULL /\ tx.state # "TX_IDLE"
    /\ Has(hist'.ev, "defunct")

\* Every result reported in the step is that of a message handed to the
\* transmitter earlier in the same step, and no other socket output has
\* changed.
OnlyLaterResults ==
    /\ \A k \in 1..Len(hist'.ev) :
          hist'.ev[k].e \in {"notify", "lost"} =>
              \E j \in 1..(k - 1) :
                  hist'.ev[j].e = "handoff" /\ hist'.ev[j].c = hist'.ev[k].c
    /\ Len(clients') = Len(clients)
    /\ \A i \in 1..Len(clients) :
          clients'[i].sock_out # clients[i].sock_out =>
              \E k \in 1..Len(hist'.ev) :
                  hist'.ev[k].e = "notify" /\ hist'.ev[k].c = clients[i].id

\* A message is waiting for the transmitter.
SomeReady ==
    \E i \in 1..Len(clients) : clients[i].state = CLIENT_MSG_READY

\* C22: closing the client whose message is in the transmitter clears
\* tx.client and leaves the rest of the transmitter as it is; when that
\* transmission ends, nothing is put into a socket output for it, and a
\* waiting client's message is handed to the transmitter.
C22_DefunctTransmission ==
    [][/\ OwnerClosed => tx' = [tx EXCEPT !.client = NULL]
       /\ DefunctEnds =>
             /\ hist'.ev[CHOOSE k \in 1..Len(hist'.ev) :
                             hist'.ev[k].e = "defunct"].txc = NULL
             /\ OnlyLaterResults
             /\ IF SomeReady
                THEN /\ Has(hist'.ev, "handoff")
                     /\ hist'.seq > hist.seq
                ELSE /\ clients' = clients
                     /\ tx'.state = "TX_IDLE"]_vars

\* The transmission of a closed client has ended and the waiting client's
\* message has taken its place.
C22_Witness ==
    /\ HasEv("defunct") /\ HasEv("handoff")
    /\ hist.gone = 1
    /\ tx.client # NULL /\ tx.state = "TX_PEND_MSG_TX"

\* Client i sends SOH and nothing else.
SohFrom(i) == Do(client_read(Begin, clients[i].id, <<MSG_SOH>>))

\* The client list without its i-th client, the others as they are.
ListWithout(i) ==
    SubSeq(clients, 1, i - 1) \o SubSeq(clients, i + 1, Len(clients))

\* C23: a client that sends SOH in MSG_READY or MSG_PEND is closed and the
\* other clients are as they were; a message it had waiting is not handed
\* to the transmitter then, and later only clients in the list, which a
\* closed client never joins again, have messages handed over.
C23_SecondSohCloses ==
    [][/\ \A i \in 1..Len(clients) :
             (clients[i].state \in {CLIENT_MSG_READY, CLIENT_MSG_PEND}
                  /\ SohFrom(i)) =>
                 /\ clients' = ListWithout(i)
                 /\ Has(hist'.ev, "close") /\ ~Has(hist'.ev, "handoff")
                 /\ clients[i].state = CLIENT_MSG_READY => tx' = tx
       /\ Ids([clients |-> clients']) \subseteq Ids(St)
       /\ \A k \in 1..Len(hist'.ev) :
             hist'.ev[k].e = "handoff" => hist'.ev[k].c \in Ids(St)]_vars

\* A client has been closed for a protocol error while its message waited
\* behind the other client's message in the transmitter.
C23_Witness ==
    /\ \E k \in 1..Len(hist.ev) :
          /\ hist.ev[k].e = "close"
          /\ hist.ev[k].own # NULL /\ hist.ev[k].own # hist.ev[k].c
    /\ hist.gone = 0 /\ hist.msgs = 2 /\ hist.seq = 1
    /\ Len(clients) = 1 /\ tx_busy(tx)

\* C24: a client in a registered state has sent a name_len from 1 to
\* PCCC_NAME_LEN and that many name bytes, and no client has more than
\* PCCC_NAME_LEN name bytes stored.
C24_RegisteredNameLen ==
    \A i \in 1..Len(clients) :
        /\ clients[i].state >= CLIENT_IDLE =>
              /\ clients[i].name_len \in 1..PCCC_NAME_LEN
              /\ clients[i].name_len_rcvd = clients[i].name_len
        /\ clients[i].name_len_rcvd <= PCCC_NAME_LEN

\* The name bytes stored stay within PCCC_NAME_LEN.
NameStoredWithinLimit ==
    \A i \in 1..Len(clients) : clients[i].name_len_rcvd <= PCCC_NAME_LEN

\* No write goes past the end of a client's name array.
NameWritesInBounds == ~HasEv("nameoob")

(***************************************************************************)
(* The PCCC client library: handlers.  A handler takes the connection L    *)
(* and gives the connection it leaves; L.h.ret is the value it returns.    *)
(***************************************************************************)
HasBit(x, b) == (x \div b) % 2 = 1

OrBit(x, b) == IF HasBit(x, b) THEN x ELSE x + b

Ret(L, r) == [L EXCEPT !.h.ret = r]

\* msg_flush leaves is_cmd, notify, udata and tns of the slot as they were.
msg_flush(L, i) ==
    [L EXCEPT !.msgs[i].state = MSG_UNUSED, !.msgs[i].expires = 0,
              !.msgs[i].buf = buf_empty]

\* A call through the slot's notify pointer with the slot's udata: the
\* callback of the command that last owned the slot, or a jump through a
\* pointer that is NULL or was never set.  The record of a call names the
\* function that made it.
CallNotify(L, i, res, by) ==
    IF L.msgs[i].notify = "fn"
    THEN [L EXCEPT !.h.calls[L.msgs[i].id] = Append(@, <<res, by>>)]
    ELSE [L EXCEPT !.h.crashed = TRUE]

msg_send(L) ==
    LET m == L.msgs[L.cur_msg]
        a == buf_append_byte(L.sock_out, MSG_SOH, BUF_SIZE)
        b == buf_append_byte(a.b, Len(m.buf.data), BUF_SIZE)
        c == buf_append_buf(b.b, m.buf, BUF_SIZE)
    IN  IF a.err \/ b.err \/ c.err
        THEN Ret([L EXCEPT !.sock_out = c.b], "EOVERFLOW")
        ELSE Ret([L EXCEPT !.sock_out = c.b,
                           !.msgs[L.cur_msg].state = MSG_TX], "SUCCESS")

NextSlot(i) == IF i = NumMsgs THEN 1 ELSE i + 1

\* msg_send_next: nothing while the current message is exactly MSG_TX;
\* else the first MSG_PEND slot after the current one, cyclically.
RECURSIVE send_scan(_, _)
send_scan(L, i) ==
    IF i = 0 THEN Ret(L, "SUCCESS")
    ELSE IF L.msgs[L.cur_msg].state = MSG_PEND THEN msg_send(L)
    ELSE send_scan([L EXCEPT !.cur_msg = NextSlot(@)], i - 1)

msg_send_next(L) ==
    IF L.msgs[L.cur_msg].state = MSG_TX THEN Ret(L, "SUCCESS")
    ELSE send_scan([L EXCEPT !.cur_msg = NextSlot(@)], NumMsgs)

\* A variant of rcv_ack that reports the command as soon as it is
\* acknowledged, without its reply.
lib_rcv_ack_eager(L) ==
    LET i == L.cur_msg
        L1 == [L EXCEPT !.msgs[i].state = OrBit(@, MSG_ACK_RCVD)]
    IN  msg_send_next(
            IF L.msgs[i].is_cmd
            THEN IF HasBit(L1.msgs[i].state, MSG_TX)
                 THEN CallNotify(msg_flush(L1, i), i, "SUCCESS", "rcv_ack")
                 ELSE L1
            ELSE msg_flush(L1, i))

\* rcv_ack of the library: the ACK is booked on the current slot, whatever
\* its state.
lib_rcv_ack(L) ==
    LET i == L.cur_msg
        L1 == [L EXCEPT !.msgs[i].state = OrBit(@, MSG_ACK_RCVD)]
        L2 == IF L.msgs[i].notify # "null"
              THEN [L1 EXCEPT !.msgs[i].expires = L.now + LibTimeout + 1]
              ELSE L1
    IN  msg_send_next(
            IF L.msgs[i].is_cmd
            THEN IF L1.msgs[i].state = MSG_CMD_DONE
                 THEN CallNotify(msg_flush(L2, i), i, L.msgs[i].result, "rcv_ack")
                 ELSE L2
            ELSE msg_flush(L1, i))

lib_rcv_nak(L) ==
    LET i == L.cur_msg
    IN  msg_send_next(
            IF L.msgs[i].is_cmd /\ L.msgs[i].notify # "null"
            THEN CallNotify(msg_flush(L, i), i, "ECMD_NODELIVER", "rcv_nak")
            ELSE msg_flush(L, i))

\* msg_is_reply: bit 0x40 of the command byte, the third byte.
msg_is_reply(m) == HasBit(m[3], 64)

\* msg_find_cmd: the first slot in use that is a command with the TNS of
\* the message, its bytes five and six, low byte first.
msg_find_cmd(L) ==
    LET hits == {i \in 1..NumMsgs : /\ L.msgs[i].state # MSG_UNUSED
                                    /\ L.msgs[i].is_cmd
                                    /\ L.msgs[i].tns =
                                         L.msg_in[5] + 256 * L.msg_in[6]}
    IN  IF hits = {} THEN NULL
        ELSE CHOOSE i \in hits : \A j \in hits : i <= j

\* parse_msg: a reply is answered with MSG_ACK and booked on its command;
\* the branch for an inbound command is empty.
parse_msg(L) ==
    IF msg_is_reply(L.msg_in)
    THEN LET i == msg_find_cmd(L)
             res == IF L.msg_in[4] # 0 THEN "ECMD_REPLY" ELSE "SUCCESS"
             L1 == [L EXCEPT !.sock_out =
                                 buf_append_byte(@, MSG_ACK, BUF_SIZE).b]
         IN  IF i = NULL THEN L1
             ELSE IF L.msgs[i].notify = "null"
             THEN [L1 EXCEPT !.msgs[i].state = OrBit(@, MSG_REPLY_RCVD)]
             ELSE IF OrBit(L.msgs[i].state, MSG_REPLY_RCVD) = MSG_CMD_DONE
             THEN CallNotify(msg_flush(L1, i), i, res, "parse_msg")
             ELSE [L1 EXCEPT !.msgs[i].state = OrBit(@, MSG_REPLY_RCVD),
                             !.msgs[i].result = res]
    ELSE L

\* The guard on msg_in_len always holds; it has the state after this byte
\* computed before the next byte is parsed.
RECURSIVE parse_link(_, _)
parse_link(L, bytes) ==
    IF bytes = <<>> THEN Ret(L, "SUCCESS")
    ELSE LET L1 ==
               CASE L.read_mode = "IDLE" /\ Head(bytes) = MSG_SOH ->
                      [L EXCEPT !.msg_in = <<>>, !.read_mode = "MSG_LEN"]
                 [] L.read_mode = "IDLE" /\ Head(bytes) = MSG_ACK ->
                      lib_rcv_ack(L)
                 [] L.read_mode = "IDLE" /\ Head(bytes) = MSG_NAK ->
                      lib_rcv_nak(L)
                 [] L.read_mode = "MSG_LEN" ->
                      [L EXCEPT !.msg_in_len = Head(bytes), !.read_mode = "MSG"]
                 [] L.read_mode = "MSG" ->
                      IF L.msg_in_len = Len(L.msg_in) + 1
                      THEN parse_msg([L EXCEPT !.msg_in = Append(@, Head(bytes)),
                                               !.read_mode = "IDLE"])
                      ELSE [L EXCEPT !.msg_in = Append(@, Head(bytes))]
                 [] OTHER -> L
         IN  IF L1.msg_in_len >= 0 THEN parse_link(L1, Tail(bytes)) ELSE L1

\* pccc_read with a read() that returned len: below zero an error, zero the
\* end of the stream, else the bytes.
pccc_read(L, len, bytes) ==
    IF ~L.connected \/ len <= 0 THEN Ret(L, "ELINK")
    ELSE parse_link(L, bytes)

\* pccc_write with a write() that took all of sock_out, or failed.
pccc_write(L, failed) ==
    IF ~L.connected \/ failed THEN Ret(L, "ELINK")
    ELSE Ret([L EXCEPT !.sock_out = buf_empty], "SUCCESS")

\* pccc_tick, from slot i on: a command whose expiry time has come is
\* flushed and its callback called.
RECURSIVE pccc_tick(_, _)
pccc_tick(L, i) ==
    IF ~L.connected \/ i > NumMsgs THEN Ret(L, "SUCCESS")
    ELSE pccc_tick(
           IF L.msgs[i].is_cmd /\ L.msgs[i].expires # 0
                               /\ L.now >= L.msgs[i].expires
           THEN IF L.msgs[i].notify # "null"
                THEN CallNotify(msg_flush(L, i), i, "ECMD_TIMEOUT", "pccc_tick")
                ELSE msg_flush(L, i)
           ELSE L,
           i + 1)

\* msg_abort_all, from slot i on.
RECURSIVE msg_abort_all(_, _)
msg_abort_all(L, i) ==
    IF i > NumMsgs THEN L
    ELSE msg_abort_all(
           IF L.msgs[i].state = MSG_UNUSED THEN L
           ELSE IF L.msgs[i].notify # "null"
           THEN msg_flush(CallNotify(L, i, "ELINK", "msg_abort_all"), i)
           ELSE msg_flush(L, i),
           i + 1)

pccc_close(L) ==
    IF ~L.connected THEN Ret(L, "SUCCESS")
    ELSE Ret([msg_abort_all([L EXCEPT !.connected = FALSE], 1)
                EXCEPT !.sock_out = buf_empty, !.msg_in = <<>>,
                       !.read_mode = "IDLE", !.cur_msg = 1], "SUCCESS")

\* cmd_init: the first unused slot becomes a pending command with the next
\* transaction number; L.cmd is the slot handed back to the caller.
cmd_init(L, notify) ==
    LET free == {i \in 1..NumMsgs : L.msgs[i].state = MSG_UNUSED}
        i == CHOOSE k \in free : \A j \in free : k <= j
    IN  IF ~L.connected THEN Ret(L, "ELINK")
        ELSE IF free = {} THEN Ret(L, "ECMD_NOBUF")
        ELSE Ret([L EXCEPT !.msgs[i] =
                      [state |-> MSG_PEND, is_cmd |-> TRUE, notify |-> notify,
                       tns |-> L.tns, expires |-> 0, result |-> @.result,
                       buf |-> [data |-> <<2, 1, 6, 0, L.tns % 256,
                                           L.tns \div 256, 2>>,
                                index |-> 0],
                       id |-> L.h.ncmds + 1],
                   !.tns = (@ + 1) % TNS_MOD,
                   !.cmd = i,
                   !.h.ncmds = @ + 1], "SUCCESS")

\* A command function of the non-blocking kind: cmd_init, then cmd_send,
\* which for a command with a callback is msg_send_next.
pccc_cmd(L) ==
    LET L1 == cmd_init(L, "fn")
        L2 == msg_send_next(L1)
    IN  IF L1.h.ret # "SUCCESS" THEN L1
        ELSE IF L2.h.ret # "SUCCESS" THEN L2
        ELSE [L2 EXCEPT !.h.accepted = @ \cup {L1.h.ncmds}]

(***************************************************************************)
(* The library's surroundings: the daemon at the other end of the socket   *)
(* and the peer behind it.                                                 *)
(***************************************************************************)
\* The daemon reads what the library wrote: a message from an IDLE client
\* goes to the transmitter, SOH from a client whose message is still with
\* the transmitter closes the client, a response byte is consumed.
RECURSIVE DaemonGets(_, _)
DaemonGets(L, bytes) ==
    IF bytes = <<>> \/ L.dmn \notin {"idle", "busy"} THEN L
    ELSE IF Head(bytes) = MSG_SOH
    THEN DaemonGets(
           IF L.dmn = "idle"
           THEN [L EXCEPT !.dmn = "busy",
                          !.sent = @ \cup {bytes[7] + 256 * bytes[8]}]
           ELSE [L EXCEPT !.dmn = "closed"],
           SubSeq(bytes, 3 + bytes[2], Len(bytes)))
    ELSE DaemonGets(L, Tail(bytes))

\* A reply of the peer to a command with transaction number t, and a
\* command of the peer, as the daemon delivers them: SOH, length, message.
ReplySts == {0, 16}

PeerMsg(cmd, sts, t) == <<MSG_SOH, 6, 1, 2, cmd, sts, t % 256, t \div 256>>

\* What malloc left in the slots: the same in each, one of four kinds.
LibJunk ==
    {[i \in 1..NumMsgs |-> j] : j \in [is_cmd : BOOLEAN,
                                       notify : {"null", "wild"}]}

LibTnsStart == {TNS_MOD - 1}

InitLibWith(lim) ==
    /\ ConnInit(BaseCfg)
    /\ lib \in {LibNew(t, j, lim) : t \in LibTnsStart, j \in LibJunk}

InitLib == InitLibWith(LibCfg)

InitLibErr == InitLibWith(LibErrCfg)

\* One call of the application into the library, or one step of the
\* daemon or the peer; a process that crashed makes no further calls.
LibDo(L) ==
    /\ ~lib.h.crashed
    /\ \A k \in 1..MaxCmds : Len(L.h.calls[k]) <= 2
    /\ lib' = Ret(L, "SUCCESS")
    /\ UNCHANGED <<clients, tx, rx, conn, dcnts, hist, cfg, bf>>

LibCmd ==
    /\ lib.h.ncmds < lib.lim.cmds
    /\ LibDo(pccc_cmd(lib))

LibWrite ==
    /\ lib.connected /\ lib.dmn # "error"
    /\ buf_write_ready(lib.sock_out)
    /\ LibDo(DaemonGets(pccc_write(lib, FALSE), lib.sock_out.data))

LibWriteErr ==
    /\ lib.connected
    /\ buf_write_ready(lib.sock_out)
    /\ LibDo(pccc_write([lib EXCEPT !.dmn = "error"], TRUE))

LibRead ==
    /\ lib.connected /\ lib.dmn # "error"
    /\ lib.wire # <<>>
    /\ LibDo(pccc_read([lib EXCEPT !.wire = Tail(@)], Len(Head(lib.wire)),
                       Head(lib.wire)))

LibReadEof ==
    /\ lib.connected /\ lib.dmn = "closed"
    /\ lib.wire = <<>>
    /\ LibDo(pccc_read(lib, 0, <<>>))

LibReadErr ==
    /\ lib.connected
    /\ LibDo(pccc_read([lib EXCEPT !.dmn = "error"], -1, <<>>))

LibTick ==
    /\ lib.connected
    /\ LibDo(pccc_tick(lib, 1))

LibClock ==
    /\ lib.now < MaxNow
    /\ LibDo([lib EXCEPT !.now = @ + 1])

LibClose ==
    /\ lib.connected
    /\ LibDo(pccc_close(lib))

\* The daemon reports the end of the transmission it was given.
DaemonAnswer ==
    /\ lib.connected /\ lib.dmn = "busy"
    /\ \E b \in {MSG_ACK, MSG_NAK} :
         LibDo([lib EXCEPT !.dmn = "idle",
                                            !.wire = Append(@, <<b>>)])

\* The peer replies to a command the daemon was given.
PeerReply ==
    /\ lib.connected /\ lib.dmn \in {"idle", "busy"}
    /\ lib.h.nin < lib.lim.inbound
    /\ \E t \in lib.sent : \E sts \in ReplySts :
         LibDo([lib EXCEPT !.h.nin = @ + 1,
                           !.wire = Append(@, PeerMsg(70, sts, t))])

\* The peer sends a command of its own to the library's address.
PeerCommand ==
    /\ lib.connected /\ lib.dmn \in {"idle", "busy"}
    /\ lib.h.nin < lib.lim.inbound
    /\ LibDo([lib EXCEPT !.h.nin = @ + 1,
                         !.wire = Append(@, PeerMsg(6, 0, 7))])

NextLib ==
    \/ LibCmd
    \/ LibWrite
    \/ LibRead
    \/ LibReadEof
    \/ LibTick
    \/ LibClock
    \/ LibClose
    \/ DaemonAnswer
    \/ PeerReply

\* With socket errors and commands of the peer.
NextLibErr ==
    \/ NextLib
    \/ LibWriteErr
    \/ LibReadErr
    \/ PeerCommand

SpecLib == InitLib /\ [][NextLib]_vars

SpecLibErr == InitLibErr /\ [][NextLibErr]_vars

(***************************************************************************)
(* C25: callbacks of non-blocking commands.                                *)
(***************************************************************************)
\* No callback is called a second time for its command.
NotifiedAtMostOnce == \A k \in 1..MaxCmds : Len(lib.h.calls[k]) <= 1

\* Once the connection is closed every accepted command has been reported.
NotifiedByClose ==
    ~lib.connected => \A k \in lib.h.accepted : Len(lib.h.calls[k]) >= 1

\* The library never calls through a notify pointer that no command set.
NoWildCall == ~lib.h.crashed

\* C25: in non-blocking mode the callback of every command that cmd_send
\* accepted is called exactly once, whatever the order of the daemon's ACK
\* and NAK bytes, the replies, pccc_tick and pccc_close: never twice, and
\* it has been called by the time the connection is closed.
C25_NotifiedExactlyOnce == NotifiedAtMostOnce /\ NotifiedByClose

(***************************************************************************)
(* C26: completion of a non-blocking command.                              *)
(***************************************************************************)
ReplyOutcomes == {"SUCCESS", "ECMD_REPLY"}

\* Slot i holds a command with a callback that is not yet flushed.
Outstanding(i) == lib.msgs[i].state # MSG_UNUSED /\ lib.msgs[i].notify = "fn"

\* The next thing to read is the daemon's ACK, which rcv_ack books on
\* slot i.
AckOn(i) ==
    /\ lib.wire # <<>> /\ Head(lib.wire) = <<MSG_ACK>>
    /\ lib.cur_msg = i

\* The next thing to read is a reply, which msg_find_cmd books on slot i.
ReplyOn(i) ==
    /\ lib.wire # <<>> /\ Len(Head(lib.wire)) = 8
    /\ msg_is_reply(SubSeq(Head(lib.wire), 3, 8))
    /\ msg_find_cmd([lib EXCEPT !.msg_in = SubSeq(Head(lib.wire), 3, 8)]) = i

\* The command of slot i is reported in this step with a reply outcome.
Completed(i) ==
    /\ Len(lib'.h.calls[lib.msgs[i].id]) = Len(lib.h.calls[lib.msgs[i].id]) + 1
    /\ lib'.h.calls[lib.msgs[i].id][Len(lib'.h.calls[lib.msgs[i].id])][1]
           \in ReplyOutcomes

\* A reply outcome is reported only in the step that sets the last of the
\* three bits, by the ACK or by the reply, and the slot is flushed with it.
DoneOnlyWhenAllThree ==
    \A i \in 1..NumMsgs :
        Outstanding(i) /\ Completed(i) =>
            /\ lib'.msgs[i].state = MSG_UNUSED
            /\ \/ AckOn(i) /\ lib.msgs[i].state = MSG_TX + MSG_REPLY_RCVD
               \/ ReplyOn(i) /\ lib.msgs[i].state = MSG_TX + MSG_ACK_RCVD
            /\ LibRead

\* No callback is called with a reply outcome for a slot that is not in use.
NoneForUnused ==
    \A k \in 1..MaxCmds :
        (/\ Len(lib'.h.calls[k]) > Len(lib.h.calls[k])
         /\ lib'.h.calls[k][Len(lib'.h.calls[k])][1] \in ReplyOutcomes)
        => \E i \in 1..NumMsgs : Outstanding(i) /\ lib.msgs[i].id = k

\* The ACK alone, or the reply alone, sets its bit and reports nothing.
OneAloneLeavesOutstanding ==
    LibRead => \A i \in 1..NumMsgs :
        /\ (Outstanding(i) /\ AckOn(i)
                /\ ~HasBit(lib.msgs[i].state, MSG_REPLY_RCVD))
           => /\ lib'.msgs[i].state = OrBit(lib.msgs[i].state, MSG_ACK_RCVD)
              /\ lib'.h.calls = lib.h.calls
        /\ (Outstanding(i) /\ ReplyOn(i)
                /\ ~HasBit(lib.msgs[i].state, MSG_ACK_RCVD))
           => /\ lib'.msgs[i].state = OrBit(lib.msgs[i].state, MSG_REPLY_RCVD)
              /\ lib'.h.calls = lib.h.calls

SocketError == LibReadErr \/ LibReadEof \/ LibWriteErr

\* Each of them returns PCCC_ELINK.
SocketErrorReturnsElink ==
    /\ pccc_read(lib, -1, <<>>).h.ret = "ELINK"
    /\ pccc_read(lib, 0, <<>>).h.ret = "ELINK"
    /\ pccc_write(lib, TRUE).h.ret = "ELINK"

\* The call leaves no slot in use, and every callback of a command that was
\* outstanding has been called with PCCC_ELINK.
AllAborted ==
    \A i \in 1..NumMsgs :
        /\ lib'.msgs[i].state = MSG_UNUSED
        /\ Outstanding(i) =>
              /\ Len(lib'.h.calls[lib.msgs[i].id]) =
                     Len(lib.h.calls[lib.msgs[i].id]) + 1
              /\ lib'.h.calls[lib.msgs[i].id][Len(lib'.h.calls[lib.msgs[i].id])][1]
                     = "ELINK"

\* C27: when pccc_read or pccc_write fails with a socket error, or
\* pccc_read sees the end of the stream, every outstanding command is
\* aborted: its slot becomes UNUSED and its callback is called with ELINK.
C27_SocketErrorAborts == [][SocketError => AllAborted]_vars

\* The slots a failed pccc_read or pccc_write leaves are the slots it found.
SocketErrorKeepsSlots ==
    [][SocketError => lib'.msgs = lib.msgs /\ lib'.h.calls = lib.h.calls]_vars

\* pccc_close is the call that aborts them.
CloseAborts == [][LibClose => AllAborted]_vars

(***************************************************************************)
(* C28: the response to an inbound message.                                *)
(***************************************************************************)
\* pccc_read takes one complete message: SOH, length, payload.
InboundRead ==
    /\ lib.wire # <<>> /\ Len(Head(lib.wire)) = 8
    /\ LibRead

\* The call appended one response byte to the socket output.
OneResponse ==
    \E b \in {MSG_ACK, MSG_NAK} :
        lib'.sock_out.data = Append(lib.sock_out.data, b)

\* C28: for every complete inbound message, reply or command, the library
\* appends exactly one response byte, 0x06 or 0x15, to its socket output.
C28_InboundAnswered == [][InboundRead => OneResponse]_vars

\* A reply is answered, with MSG_ACK.
ReplyAnswered ==
    [][InboundRead /\ msg_is_reply(SubSeq(Head(lib.wire), 3, 8))
          => lib'.sock_out.data = Append(lib.sock_out.data, MSG_ACK)]_vars

\* A command of the peer leaves the socket output as it was.
CommandUnanswered ==
    [][InboundRead /\ ~msg_is_reply(SubSeq(Head(lib.wire), 3, 8))
          => lib'.sock_out = lib.sock_out]_vars

(***************************************************************************)
(* C30: attribution of replies.                                            *)
(***************************************************************************)
\* Slot i holds a command that is in use and has not been reported.
Unreported(i) ==
    /\ lib.msgs[i].id # 0
    /\ lib.msgs[i].state # MSG_UNUSED
    /\ lib.h.calls[lib.msgs[i].id] = <<>>

\* The commands not yet reported have transaction numbers of their own.
DistinctTns ==
    \A i, j \in 1..NumMsgs :
        i # j /\ Unreported(i) /\ Unreported(j)
            => lib.msgs[i].tns # lib.msgs[j].tns

\* pccc_read takes a reply.
ReplyRead ==
    /\ lib.wire # <<>> /\ Len(Head(lib.wire)) = 8
    /\ msg_is_reply(SubSeq(Head(lib.wire), 3, 8))
    /\ LibRead

\* The reply's transaction number.
ReplyTns == Head(lib.wire)[7] + 256 * Head(lib.wire)[8]

\* The reply touches no slot of a command but that of an unreported
\* command with its transaction number, and no callback but that one's.
OnlyItsCommand ==
    /\ \A i \in 1..NumMsgs :
           lib.msgs[i].id # 0 /\ lib'.msgs[i] # lib.msgs[i]
               => Unreported(i) /\ lib.msgs[i].tns = ReplyTns
    /\ \A k \in 1..MaxCmds :
           lib'.h.calls[k] # lib.h.calls[k]
               => \E i \in 1..NumMsgs : /\ Unreported(i)
                                        /\ lib.msgs[i].tns = ReplyTns
                                        /\ lib.msgs[i].id = k

\* C30: a reply is attributed to the outstanding command with the reply's
\* TNS and to no other command: outstanding commands have pairwise distinct
\* TNS values, and a reply whose TNS matches no outstanding command changes
\* no command's state and calls no callback.
C30_ReplyAttribution ==
    /\ []DistinctTns
    /\ [][ReplyRead => OnlyItsCommand]_vars

\* A reply calls no callback but that of the command msg_find_cmd returns.
ReplyCallsOnlyItsCommand ==
    [][ReplyRead => \A i \in 1..NumMsgs : \A k \in 1..MaxCmds :
                        ReplyOn(i) /\ lib'.h.calls[k] # lib.h.calls[k]
                            => lib.msgs[i].id = k]_vars

(***************************************************************************)
(* One-at-a-time commands: cmd_send with a NULL callback is send_oaat,     *)
(* which stays in the library until the command has an outcome.  lib.pc    *)
(* is the place of the call: "user" outside, "timeout" before              *)
(* oaat_timeout, "read" before pccc_read's read().                         *)
(***************************************************************************)
\* send_oaat returns res for the command in slot L.cmd.
OaatReturn(L, res) ==
    [L EXCEPT !.pc = "user",
              !.h.calls[L.msgs[L.cmd].id] = Append(@, <<res, "send_oaat">>)]

\* send_oaat up to its loop: the command becomes the current message, is
\* put in the socket output and written.
send_oaat(L, failed) ==
    LET L1 == msg_send([L EXCEPT !.cur_msg = L.cmd])
        L2 == pccc_write(L1, failed)
    IN  IF L1.h.ret # "SUCCESS" THEN OaatReturn(L1, L1.h.ret)
        ELSE IF L2.h.ret # "SUCCESS"
        THEN OaatReturn([L2 EXCEPT !.dmn = "error"], L2.h.ret)
        ELSE [DaemonGets(L2, L1.sock_out.data) EXCEPT !.pc = "timeout"]

\* oaat_timeout: no wait at all before the command's ACK or within a
\* message; else select() for at most the connection's timeout, which
\* ends with the socket readable or with the timer.
oaat_timeout(L, readable) ==
    IF ~HasBit(L.msgs[L.cmd].state, MSG_ACK_RCVD) THEN Ret(L, "SUCCESS")
    ELSE IF L.read_mode # "IDLE" THEN Ret(L, "SUCCESS")
    ELSE IF readable THEN Ret(L, "SUCCESS")
    ELSE Ret(msg_flush(L, L.cmd), "ECMD_TIMEOUT")

\* The loop of send_oaat after pccc_read has returned.
oaat_read_done(L) ==
    LET st == L.msgs[L.cmd].state
        L1 == pccc_write(L, FALSE)
        res == IF L.msg_in[4] # 0 THEN "ECMD_REPLY" ELSE "SUCCESS"
    IN  IF L.h.ret # "SUCCESS" THEN OaatReturn(L, L.h.ret)
        ELSE IF st = MSG_UNUSED THEN OaatReturn(L, "ECMD_NODELIVER")
        ELSE IF HasBit(st, MSG_REPLY_RCVD)
        THEN OaatReturn(msg_flush(DaemonGets(L1, L.sock_out.data), L.cmd),
                        res)
        ELSE IF st = MSG_CMD_DONE THEN OaatReturn(msg_flush(L, L.cmd), res)
        ELSE [L EXCEPT !.pc = "timeout"]

\* The socket is readable: bytes wait in it, or the daemon closed it.
Readable == lib.wire # <<>> \/ lib.dmn = "closed"

\* The application calls a command function without a callback.
OaatCmd ==
    /\ lib.pc = "user" /\ lib.connected /\ lib.dmn # "error"
    /\ lib.h.ncmds < lib.lim.cmds
    /\ \E failed \in BOOLEAN :
         LET L1 == cmd_init(lib, "null")
         IN  LibDo(IF L1.h.ret # "SUCCESS" THEN L1 ELSE send_oaat(L1, failed))

\* oaat_timeout runs; what arrives while select() waits has arrived before
\* this step.
OaatTimeout ==
    /\ lib.pc = "timeout"
    /\ LET L1 == oaat_timeout(lib, Readable)
       IN  LibDo(IF L1.h.ret # "SUCCESS" THEN OaatReturn(L1, L1.h.ret)
                 ELSE [L1 EXCEPT !.pc = "read"])

\* read() on the blocking socket returns: with the next bytes, with the
\* next bytes and those after them, or with the end of the stream.
OaatRead ==
    /\ lib.pc = "read" /\ Readable
    /\ \/ /\ lib.wire # <<>>
          /\ \E n \in {1, 2} :
               /\ n <= Len(lib.wire)
               /\ LET bytes == IF n = 1 THEN lib.wire[1]
                               ELSE lib.wire[1] \o lib.wire[2]
                  IN  LibDo(oaat_read_done(
                        pccc_read([lib EXCEPT !.wire = SubSeq(@, n + 1, Len(@))],
                                  Len(bytes), bytes)))
       \/ /\ lib.wire = <<>>
          /\ LibDo(oaat_read_done(pccc_read(lib, 0, <<>>)))

NextOaat ==
    \/ OaatCmd
    \/ OaatTimeout
    \/ OaatRead
    \/ DaemonAnswer
    \/ PeerReply

\* send_oaat runs on: select() returns when its timer ends, read() when
\* the socket is readable.  The fairness of OaatRead is written out for
\* the states in which read() can return; WF_vars(OaatRead) implies it.
\* Nothing is assumed of the daemon and the peer.
SpecOaat ==
    /\ InitLibErr /\ [][NextOaat]_vars
    /\ WF_vars(OaatTimeout)
    /\ ([]<>~(lib.pc = "read" /\ Readable /\ ~lib.h.crashed)
           \/ []<><<OaatRead>>_vars)

\* send_oaat is in read() and the socket holds nothing to read.
BlockedInRead == lib.pc = "read" /\ ~Readable

\* The call is over: send_oaat has returned, or the process has crashed.
OaatOver == lib.pc = "user" \/ lib.h.crashed

\* C29: a one-at-a-time command always returns with an outcome, whatever
\* the daemon sends or does not send (a call that ends in a crash of the
\* process is not counted against it).
C29_OaatAlwaysReturns == (lib.pc # "user") ~> OaatOver

\* send_oaat never waits in read() without a bound.
NeverBlockedInRead == ~BlockedInRead

\* Once the command's ACK is booked the call returns.
AckedReturns ==
    (lib.pc # "user" /\ HasBit(lib.msgs[lib.cmd].state, MSG_ACK_RCVD))
        ~> OaatOver

\* A returned call has reported one outcome for its command.
ReturnedWithOutcome ==
    lib.pc = "user" /\ ~lib.h.crashed
        => \A k \in 1..lib.h.ncmds : Len(lib.h.calls[k]) = 1

(***************************************************************************)
(* C31: a frame of the transmitter read by the receiver.                   *)
(***************************************************************************)
\* Application bytes of the round trip: every sequence of up to MaxTripLen
\* bytes of TripBytes (the node address of a client, DLE, ETX).
MaxTripLen == 7

TripBytes == {1, SYM_DLE, SYM_ETX}

RECURSIVE SeqsUpTo(_, _)
SeqsUpTo(S, n) ==
    IF n = 0 THEN {<<>>}
    ELSE LET shorter == SeqsUpTo(S, n - 1)
         IN shorter \cup {Append(q, x) : q \in {p \in shorter : Len(p) = n - 1},
                                         x \in S}

\* The scenario: the application bytes, the checksum mode and what the
\* first read() of the TTY returns of the frame: all of it, all but its
\* last byte, or its first three bytes.
TripCfg(app, crc, cut) ==
    [app |-> app, cut |-> cut]
        @@ [BaseCfg EXCEPT !.use_crc = crc, !.nclients = 1, !.maxPeer = 2,
                           !.maxMsgs = 0, !.maxGone = 0]

\* What tx_msg puts into an empty tx.msg that has room for it: DLE STX, the
\* stuffed bytes, DLE ETX and the checksum.
TxFrame == FrameOf(cfg.app)

InitTrip ==
    \E app \in SeqsUpTo(TripBytes, MaxTripLen) : \E crc \in BOOLEAN :
        \E cut \in {"all", "last", "head"} :
            InitWith(TripCfg(app, crc, cut))

\* The bytes of frame that the first read() returns.
FirstRead(frame) ==
    CASE cfg.cut = "all" -> Len(frame)
      [] cfg.cut = "last" -> Len(frame) - 1
      [] cfg.cut = "head" -> 3

\* The receiver reads the frame in one piece or in two.
TripRead ==
    /\ "app" \in DOMAIN cfg
    /\ hist.peer < 2
    /\ \E frame \in {TxFrame} :
         \E tty_in \in {IF hist.peer = 0
                         THEN SubSeq(frame, 1, FirstRead(frame))
                         ELSE SubSeq(frame, FirstRead(frame) + 1, Len(frame))} :
             /\ tty_in # <<>>
             /\ Do(parse_tty_data([Begin EXCEPT !.h.peer = @ + 1], tty_in))

SpecTrip == InitTrip /\ [][TripRead]_vars

\* The receiver has read the whole frame.
TripDone ==
    /\ "app" \in DOMAIN cfg
    /\ hist.peer = (IF cfg.cut = "all" THEN 1 ELSE 2)

\* The receiver took the frame for a message and holds the application
\* bytes that were sent.
TripAccepted ==
    /\ HasEv("new")
    /\ rx.app.data = cfg.app
    /\ ~rx.overflow

\* The frame the transmitter makes of a client's message is TxFrame of its
\* bytes (in the transmitter's scenario: one byte, a DLE).
TxMsgIsTxFrame ==
    HasEv("handoff") /\ HasEv("frame")
        => tx.msg.data = FrameOf(<<SYM_DLE>>)

InitBuf ==
    \E junk \in [1..BufMax -> BufByte] :
        /\ ConnInitBuf(BaseCfg, BUF_new(BufMax, junk))
        /\ lib = LibNew(42, NoJunk, LibOff)

\* One call on the buffer.  A call that went outside the buffer's memory
\* either goes on with what the code computed or ends the process.
BufDo(b) ==
    /\ ~bf.crashed
    /\ \E crash \in {FALSE} \cup {b.oob /\ ~bf.oob} :
           bf' = [b EXCEPT !.crashed = crash]
    /\ UNCHANGED <<clients, tx, rx, conn, dcnts, hist, cfg, lib>>

BufAppendByte == \E x \in BufByte : BufDo(BUF_append_byte(bf, x).b)

BufAppendBuf ==
    \E n \in 0..2 : \E x \in BufByte :
        BufDo(BUF_append_buf(bf, [len |-> n, data |-> <<x, x>>]).b)

BufGetByte == BufDo(BUF_get_byte(bf).b)

BufEmpty == BufDo(BUF_empty(bf))

BufRead ==
    \E len \in -1..bf.max : \E x \in BufByte :
        BufDo(BUF_read(bf, len, [k \in 1..(IF len < 0 THEN 0 ELSE len) |-> x]))

BufWrite == \E bytes \in -1..BUF_pending(bf) : BufDo(BUF_write(bf, bytes))

NextBuf ==
    \/ BufAppendByte
    \/ BufAppendBuf
    \/ BufGetByte
    \/ BufEmpty
    \/ BufRead
    \/ BufWrite

SpecBuf == InitBuf /\ [][NextBuf]_vars

\* C32: every byte buffer satisfies 0 <= index <= len <= max after any
\* sequence of append, get, empty, read-from-channel and write-to-channel
\* operations, a read that returns an error or the end of the file and a
\* partial write included.
C32_BufInvariant == 0 <= bf.index /\ bf.index <= bf.len /\ bf.len <= bf.max

\* As long as no read() has failed the buffer satisfies it, and no call
\* has gone outside the buffer's memory.
BufInvariantWithoutReadError == ~bf.rderr => C32_BufInvariant /\ ~bf.oob

\* A failed read() is what breaks it: len is then the largest size_t.
ReadErrorSetsLen ==
    [][BufRead /\ bf'.rderr /\ ~bf.rderr
           => bf'.len = SizeMod - 1 /\ bf'.index = 0]_vars

\* After it the buffer hands out memory that is not its own.
BufStaysInside == ~bf.oob
(***************************************************************************)
(* Clients waiting for the transmitter.                                    *)
(***************************************************************************)
\* C33: whenever a client is in MSG_PEND the transmitter is busy and its
\* client reference is that client; so after the failure byte for a
\* message, also one that failed because the TTY output was full when it
\* was being sent, the client is IDLE and can submit a new message.
C33_PendIsInFlight ==
    \A i \in DOMAIN clients :
        clients[i].state = CLIENT_MSG_PEND
            => tx_busy(tx) /\ tx.client = clients[i].id
(***************************************************************************)
(* C34: one message at a time between the library and the daemon.          *)
(***************************************************************************)
\* The slots whose message was written to the daemon and for which no
\* ACK or NAK of the daemon has been booked.
Unanswered ==
    {i \in 1..NumMsgs : /\ HasBit(lib.msgs[i].state, MSG_TX)
                        /\ ~HasBit(lib.msgs[i].state, MSG_ACK_RCVD)}

\* C34: in non-blocking mode the library never writes a second SOH-framed
\* message before it has received the daemon's ACK or NAK for the previous
\* one, also when the reply to the previous command arrives before the
\* daemon's ACK and the application queues another command in between.
C34_OneUnanswered == Cardinality(Unanswered) <= 1

\* What the daemon makes of it: it never gets SOH from the library while
\* the library's previous message is still with the transmitter.
DaemonNeverSeesSecondSoh == lib.dmn # "closed"

\* Without a reply that overtakes the daemon's ACK the library does wait:
\* a slot that is unanswered and has no reply yet is the current one and
\* is the only one.
OneUnansweredWithoutEarlyReply ==
    (\A i \in Unanswered : lib.msgs[i].state = MSG_TX)
        => Cardinality(Unanswered) <= 1
(***************************************************************************)
(* C35: a frame that does not fit the client's socket output.             *)
(***************************************************************************)
\* The clients for which the handler just run found the socket output too
\* full for a frame.
SinkFullFor(evs) == {evs[k].c : k \in {j \in 1..Len(evs) : evs[j].e = "sinkfull"}}

\* C35: when a valid frame for a registered client does not fit that
\* client's socket output, the daemon answers with NAK, appends nothing to
\* the client's socket output (no SOH or length byte without its payload)
\* and keeps no pending client in the receiver.
C35_FullSinkOnlyNaks ==
    [][\A i \in DOMAIN clients :
          clients[i].id \in SinkFullFor(hist'.ev)
              => /\ clients'[i].sock_out = clients[i].sock_out
                 /\ rx'.client # clients[i].id]_vars

\* The NAK itself is given: the frame is answered DLE NAK when the TTY
\* output has room for it.
FullSinkNaks ==
    [][SinkFullFor(hist'.ev) # {} /\ buf_len(conn.tty_out) + 2 <= TtyBufSize
          => \E k \in 1..(Len(conn'.tty_out.data) - 1) :
                 /\ conn'.tty_out.data[k] = SYM_DLE
                 /\ conn'.tty_out.data[k + 1] = SYM_NAK]_vars
(***************************************************************************)
(* C36: the byte after an invalid DLE pair.  The peer's bytes arrive one   *)
(* read at a time after the head of a frame.                               *)
(***************************************************************************)
MaxPeerDle == 5

DleCfg ==
    [BaseCfg EXCEPT !.chunks = {"head", "dle", "junk", "etx"}, !.nclients = 1,
                    !.maxPeer = MaxPeerDle, !.maxMsgs = MaxMsgsRx]

SpecDle == InitWith(DleCfg) /\ [][Next]_vars

\* The step is a read from the TTY that found the receiver in a frame,
\* after a DLE, and left it in the frame.
ByteAfterDle ==
    /\ hist'.peer = hist.peer + 1
    /\ rx.state = "RX_APP" /\ rx.prev_dle
    /\ rx'.state = "RX_APP"

\* C36: in receiver state APP, after any byte is processed while prev_dle
\* is set, also a byte that is not DLE, ETX, ACK or NAK, prev_dle is clear,
\* so the byte after an invalid DLE pair is never taken as DLE-escaped.
C36_PrevDleCleared == [][ByteAfterDle => ~rx'.prev_dle]_vars

\* For the second DLE of DLE DLE it is cleared.
PrevDleClearedByDle ==
    [][ByteAfterDle /\ ~Has(hist'.ev, "baddle") => ~rx'.prev_dle]_vars
(***************************************************************************)
(* C37: the message slot of a one-at-a-time command.                       *)
(***************************************************************************)
\* cmd_send has returned for a command that got a slot.
OaatReturned ==
    /\ lib.pc = "user" /\ lib.h.ncmds > 0
    /\ lib.h.calls[lib.msgs[lib.cmd].id] # <<>>

\* What it returned.
OaatResult == lib.h.calls[lib.msgs[lib.cmd].id][1][1]

\* C37: in one-at-a-time mode, when cmd_send returns, with success or with
\* any error, the command's message slot is UNUSED, so that a later command
\* finds a free slot also in a pool of one.
C37_SlotFreeOnReturn ==
    OaatReturned => lib.msgs[lib.cmd].state = MSG_UNUSED

\* It holds for success, a reply with an error status, the timeout and
\* the daemon's NAK.
SlotFreeUnlessLinkError ==
    OaatReturned /\ OaatResult # "ELINK"
        => lib.msgs[lib.cmd].state = MSG_UNUSED
(***************************************************************************)
(* C38: the length byte of a delivered frame, with the buffers at their    *)
(* real sizes.  The receiver has accepted LenApp(n) for client 1, whose    *)
(* socket output is empty; the daemon delivers it and writes it to the     *)
(* client's socket.                                                        *)
(***************************************************************************)
CLIENT_BUF_SIZE == 512
RX_BUF_SIZE == 512

\* The accepted lengths tried: short ones, those around 256 and those
\* around the capacity.
DeliverLens == (6..24) \cup (250..262) \cup (506..RX_BUF_SIZE)

LenApp(n) == [k \in 1..n |-> IF k = 1 THEN 1 ELSE IF k = 2 THEN 7 ELSE 0]

LenCfg(n) == [app |-> LenApp(n), cut |-> "all"] @@ [BaseCfg EXCEPT !.nclients = 1]

InitLen == \E n \in DeliverLens : InitWith(LenCfg(n))

\* client_msg_rx for a frame that fits the client's socket output.
LenDeliver ==
    /\ hist.peer = 0
    /\ Len(cfg.app) + 2 <= CLIENT_BUF_SIZE
    /\ clients' = [clients EXCEPT ![1].sock_out =
                      Deliver(@, [data |-> cfg.app, index |-> 1],
                              CLIENT_BUF_SIZE).b]
    /\ rx' = [rx EXCEPT !.client = clients[1].id]
    /\ hist' = [hist EXCEPT !.peer = 1]
    /\ UNCHANGED <<tx, conn, dcnts, cfg, lib, bf>>

\* write_client: the daemon writes the next bytes of the client's socket
\* output, at most MaxWrite at a time.
MaxWrite == 64

LenWrite ==
    /\ hist.peer = 1
    /\ buf_write_ready(clients[1].sock_out)
    /\ LET out == clients[1].sock_out
           n == IF buf_len(out) - out.index > MaxWrite THEN MaxWrite
                ELSE buf_len(out) - out.index
       IN  /\ clients' = [clients EXCEPT ![1].sock_out = buf_write(out, n)]
           /\ lib' = [lib EXCEPT !.wire =
                         Append(@, SubSeq(out.data, out.index + 1, out.index + n))]
    /\ UNCHANGED <<tx, rx, conn, dcnts, hist, cfg, bf>>

NextLen == LenDeliver \/ LenWrite

SpecLen == InitLen /\ [][NextLen]_vars

\* The frame has just been put into the client's socket output.
LenDelivered ==
    /\ "app" \in DOMAIN cfg /\ cfg.cut = "all" /\ hist.peer = 1
    /\ clients[1].sock_out.index = 0 /\ clients[1].sock_out.data # <<>>

\* C38: for every frame the daemon delivers to a client, the length byte
\* written after SOH equals the number of payload bytes that follow it, for
\* every accepted application length up to the receiver's capacity.
C38_LenIsPayloadLen ==
    LenDelivered =>
        LET out == clients[1].sock_out.data
        IN  /\ out[1] = MSG_SOH
            /\ out[2] = Len(out) - 2
            /\ SubSeq(out, 3, Len(out)) = cfg.app

\* Up to 255 bytes it does.
ShortLenIsPayloadLen ==
    LenDelivered /\ Len(cfg.app) <= 255
        => clients[1].sock_out.data[2] = Len(clients[1].sock_out.data) - 2

\* The payload is always whole: only the length byte is short.
PayloadWhole ==
    LenDelivered =>
        LET out == clients[1].sock_out.data
        IN  /\ SubSeq(out, 3, Len(out)) = cfg.app
            /\ out[2] = Len(cfg.app) % 256
(***************************************************************************)
(* C39: ready messages and the idle transmitter.                           *)
(***************************************************************************)
\* C39: between the handlers the transmitter is never IDLE while some
\* client is in MSG_READY: every completion of a transmission and every
\* newly completed client message hands a ready message to the transmitter
\* at once.
C39_NoReadyWhileIdle == tx.state = "TX_IDLE" => ~SomeReady

\* The handler just run ended a transmission while another client's message
\* was waiting, and handed that message to the transmitter.
C39_Witness ==
    /\ HasEv("notify") /\ HasEv("handoff")
    /\ tx.state # "TX_IDLE"
    /\ \E i \in DOMAIN clients :
          clients[i].state = CLIENT_MSG_PEND /\ tx.client = clients[i].id
(***************************************************************************)
(* C40: the client references of the transmitter and the receiver.         *)
(***************************************************************************)
Live(ref) == ref = NULL \/ ref \in Ids(St)

\* C40: the transmitter's and the receiver's client references are always
\* null or a client that is in the connection's client list, after any
\* interleaving of client close, transmission completion, frame delivery
\* and peer ENQ; the client rx_enq looks at while the receiver is PEND is
\* there.
C40_RefsLive ==
    /\ Live(tx.client)
    /\ Live(rx.client)
    /\ rx.state = "RX_PEND" => rx.client # NULL

\* The handler just run closed the client the receiver was waiting for
\* (the frame is acknowledged for it) while the transmitter is busy with a
\* message whose client has been closed too.
C40_Witness ==
    /\ HasEv("close") /\ HasEv("resp")
    /\ rx.state = "RX_IDLE" /\ rx.client = NULL
    /\ tx.state # "TX_IDLE" /\ tx.client = NULL

====
